---- MODULE Spec2Model ----
(***************************************************************************)
(* Model of the dataset scripts of strawberry_synthetic_dataset:           *)
(*   - Scripts/comprehensive_check.py  verify_dataset (mask scan + checks) *)
(*   - Scripts/dataset_overview.py     find_matching_pairs                 *)
(*   - Scripts/update_notebooks.py     reconstruct_metadata                *)
(*   - Scripts/verify_incremental_metadata.py  verify_dataset              *)
(*   - Scripts/visualize_sample.py     instance map, loop over annotations *)
(*   - Scripts/analyze_current_dataset.py  test_current_dataset            *)
(*   - Scripts/test_dataset_functions.py, dataset_overview.py: the callers *)
(*     of load_depth_metadata and get_intrinsics_matrix                    *)
(*   - Scripts/setup_local_env.py      main and the exit status            *)
(***************************************************************************)
EXTENDS Integers, Sequences, FiniteSets, TLC

(***************************************************************************)
(* Bounds of the model.                                                    *)
(***************************************************************************)
MaxRows == 1
MaxCols == 16
MaxShards == 2
MaxDeleted == 1
SampleRows == 2
SampleCols == 2
OrderCols == 4
MaxFileLen == 3
MaxChunk == 2
MaxSplits == 2
MaxUpdates == 2

(***************************************************************************)
(* Program constants.                                                      *)
(***************************************************************************)
PixelThreshold == 15
SampleLimit == 10
PeduncleCategory == 3
sample_id == 1
\* verify_incremental_metadata.py line 65: 0.0001 m; depths are counted in
\* units of 0.0001 m
Tolerance == 1

(***************************************************************************)
(* Generic helpers.                                                        *)
(***************************************************************************)
Range(s) == {s[i] : i \in 1..Len(s)}

RECURSIVE SeqFilter(_, _)
SeqFilter(s, keep) ==
    IF s = <<>> THEN <<>>
    ELSE IF Head(s) \in keep THEN <<Head(s)>> \o SeqFilter(Tail(s), keep)
    ELSE SeqFilter(Tail(s), keep)

SetMin(S) == CHOOSE m \in S : \A n \in S : m <= n
SetMax(S) == CHOOSE m \in S : \A n \in S : m >= n

Prefix(s, n) == IF Len(s) <= n THEN s ELSE SubSeq(s, 1, n)

(***************************************************************************)
(* comprehensive_check.py: pixels, colours and object keys.                *)
(* A pixel is <<b, g, r>>, as cv2.imread delivers it.                      *)
(***************************************************************************)
Background == <<0, 0, 0>>

Palette ==
    { Background,
      <<0, 0, 1>>,     \* ripe, id 1
      <<0, 1, 1>>,     \* ripe, id 1, G channel used
      <<3, 1, 0>>,     \* peduncle, id 1
      <<3, 1, 1>>,     \* peduncle, id 1, R channel used
      <<1, 0, 0>>,     \* unripe, id 0
      <<4, 0, 0>> }    \* invalid category

StrawberryTypes == <<"ripe", "unripe", "half_ripe">>

\* the rows a mask is made of: first pixel c1, the other pixels c2
MaskRow(c1, c2, w) == [i \in 1..w |-> IF i = 1 THEN c1 ELSE c2]
MaskRows(w) == {MaskRow(c1, c2, w) : c1 \in Palette, c2 \in Palette}
\* the masks of the check: 1..MaxRows rows of MaxCols pixels
Masks == UNION {[1..h -> MaskRows(MaxCols)] : h \in 1..MaxRows}

\* height and width of a mask
Height(m) == Len(m)
Width(m) == IF Len(m) = 0 THEN 0 ELSE Len(m[1])

\* Decode with the strawberry id taken from the G channel
Decode_IdFromGreen(px) ==
    IF px[1] = 3 THEN [valid |-> TRUE, key |-> <<"peduncle", px[2]>>]
    ELSE IF px[1] \in {0, 1, 2}
         THEN [valid |-> TRUE, key |-> <<StrawberryTypes[px[1] + 1], px[2]>>]
         ELSE [valid |-> FALSE, key |-> <<"invalid", px[1]>>]

\* lines 50-59: the decoding of one non-background pixel
Decode(px) ==
    IF px[1] = 3 THEN [valid |-> TRUE, key |-> <<"peduncle", px[2]>>]
    ELSE IF px[1] \in {0, 1, 2}
         THEN [valid |-> TRUE, key |-> <<StrawberryTypes[px[1] + 1], px[3]>>]
         ELSE [valid |-> FALSE, key |-> <<"invalid", px[1]>>]

\* Accumulate that restarts the count of an object at every new colour of it
Accumulate_ResetOnNewColor(acc, px, key) ==
    [acc EXCEPT
       !.object_pixels =
           IF key \in DOMAIN acc.object_pixels
           THEN [acc.object_pixels EXCEPT
                    ![key] = IF px \in DOMAIN acc.color_map THEN @ + 1 ELSE 1]
           ELSE acc.object_pixels @@ (key :> 1),
       !.object_order =
           IF key \in DOMAIN acc.object_pixels THEN @ ELSE Append(@, key),
       !.color_map =
           IF px \in DOMAIN acc.color_map THEN @ ELSE @ @@ (px :> key),
       !.bijection_prints =
           IF px \in DOMAIN acc.color_map /\ acc.color_map[px] # key
           THEN @ \cup {px} ELSE @]

\* lines 61-67: accumulation of one decoded pixel
Accumulate(acc, px, key) ==
    [acc EXCEPT
       !.object_pixels =
           IF key \in DOMAIN acc.object_pixels
           THEN [acc.object_pixels EXCEPT ![key] = @ + 1]
           ELSE acc.object_pixels @@ (key :> 1),
       !.object_order =
           IF key \in DOMAIN acc.object_pixels THEN @ ELSE Append(@, key),
       !.color_map =
           IF px \in DOMAIN acc.color_map THEN @ ELSE @ @@ (px :> key),
       !.bijection_prints =
           IF px \in DOMAIN acc.color_map /\ acc.color_map[px] # key
           THEN @ \cup {px} ELSE @]

\* ScanPixel without the background test of lines 45-46
ScanPixel_NoBackgroundSkip(acc, px, x, yy) ==
    LET seen == [acc EXCEPT !.visited = @ + 1] IN
    IF Decode(px).valid THEN Accumulate(seen, px, Decode(px).key)
    ELSE [seen EXCEPT !.faults = Append(@, <<x, yy, px[1]>>)]

\* lines 43-67: the body of the inner loop for the pixel at (x, yy)
ScanPixel(acc, px, x, yy) ==
    LET seen == [acc EXCEPT !.visited = @ + 1] IN
    IF px[1] = 0 /\ px[2] = 0 /\ px[3] = 0 THEN seen
    ELSE IF Decode(px).valid THEN Accumulate(seen, px, Decode(px).key)
    ELSE [seen EXCEPT !.faults = Append(@, <<x, yy, px[1]>>)]

\* ScanRowFrom that leaves the row at the first invalid category
RECURSIVE ScanRowFrom_StopAtInvalid(_, _, _, _)
ScanRowFrom_StopAtInvalid(acc, row, x, yy) ==
    IF x >= Len(row) THEN acc
    ELSE IF row[x + 1] # Background /\ ~Decode(row[x + 1]).valid
         THEN ScanPixel(acc, row[x + 1], x, yy)
         ELSE ScanRowFrom_StopAtInvalid(ScanPixel(acc, row[x + 1], x, yy),
                                        row, x + 1, yy)

\* lines 42-67: the inner loop over one row, x = 0 .. width-1
RECURSIVE ScanRowFrom(_, _, _, _)
ScanRowFrom(acc, row, x, yy) ==
    IF x >= Len(row) THEN acc
    ELSE ScanRowFrom(ScanPixel(acc, row[x + 1], x, yy), row, x + 1, yy)

EmptyAcc ==
    [color_map |-> <<>>, object_pixels |-> <<>>, object_order |-> <<>>,
     faults |-> <<>>, bijection_prints |-> {}, visited |-> 0]

(***************************************************************************)
(* Annotation records of annotations.json.                                 *)
(***************************************************************************)
Ann(img, inst, cat, area, parent) ==
    [image_id |-> img, instance_id |-> inst, category_id |-> cat,
     area |-> area, parent_id |-> parent]

\* the records annotations.json is made of: two strawberries and two
\* peduncles of the sample image, around the 15 px threshold, a strawberry
\* without parent, and a peduncle of another image
AnnCatalogue ==
    << Ann(sample_id, 1, 0, PixelThreshold, 2),
       Ann(sample_id, 2, 1, PixelThreshold - 1, 2),
       Ann(sample_id, 1, PeduncleCategory, PixelThreshold - 1, 0),
       Ann(sample_id, 2, PeduncleCategory, PixelThreshold, 0),
       Ann(sample_id, 3, 2, PixelThreshold, 0),
       Ann(sample_id + 1, 2, PeduncleCategory, PixelThreshold, 0) >>

AnnLists == {SeqFilter(AnnCatalogue, S) : S \in SUBSET Range(AnnCatalogue)}

\* get_annotations_for_image without the image filter
get_annotations_for_image_AnyImage(annotations, image_id) == annotations

\* line 25 and dataset_overview.get_annotations_for_image
RECURSIVE get_annotations_for_image(_, _)
get_annotations_for_image(annotations, image_id) ==
    IF annotations = <<>> THEN <<>>
    ELSE IF Head(annotations).image_id = image_id
         THEN <<Head(annotations)>>
              \o get_annotations_for_image(Tail(annotations), image_id)
         ELSE get_annotations_for_image(Tail(annotations), image_id)

VARIABLES
    \* comprehensive_check.verify_dataset
    pc,                 \* position of verify_dataset
    coco,               \* coco["annotations"]
    anns,               \* annotations of the sample image
    mask,               \* the mask image, a sequence of rows of pixels
    y,                  \* row index of the scan
    acc,                \* color_map, object_pixels, faults of the scan
    report,             \* results of verifications 2..5 and of the summary
    \* find_matching_pairs
    fp_pc,              \* "called" or "returned"
    annotations,        \* argument: all annotations
    image_id,           \* argument: target image
    pairs,              \* the list returned
    \* the dataset directory of the metadata scripts
    temp_exists,        \* metadata_temp/ exists
    metadata_temp,      \* file name -> content of metadata_temp/*
    master,             \* depth_metadata.json
    ann_file,           \* annotations.json
    rebuilt,            \* depth_metadata.json was written by reconstruct_metadata
    deleted,            \* shard files deleted since
    \* verify_incremental_metadata.verify_dataset
    v_pc,               \* position
    temp_files,         \* glob result still to visit
    master_meta,        \* the loaded master mapping
    errors,             \* the collected errors
    \* visualize_sample.visualize_sample
    vs_pc,              \* position
    instance_map,       \* instance id of every pixel of the mask
    unique_ids,         \* the instance ids found in the mask
    vs_coco,            \* annotations.json: images and annotations
    vs_anns,            \* the annotations of the image still to visit
    vs_out,             \* one record per annotation visited
    \* analyze_current_dataset.test_current_dataset
    a_pc,               \* position
    dataset,            \* the dataset directory
    a_env,              \* the local variables bound so far
    a_out,              \* the lines printed
    \* the callers of load_depth_metadata / get_intrinsics_matrix
    i_pc,               \* position
    caller,             \* which caller runs
    depth_file,         \* depth_metadata.json
    K,                  \* the camera matrix of the caller
    test_errors,        \* the errors list of run_tests
    \* setup_local_env.main
    s_pc,               \* position
    host,               \* venv directory, requirements file, answer typed
    trace,              \* the steps executed, with their outcome
    exit_code,          \* the status given to sys.exit
    \* a second visit of the pixels of the mask, in any order
    o_pc,               \* position
    o_left,             \* the pixels not visited yet
    o_acc,              \* color_map, object_pixels, faults of this visit
    \* split_dataset.split_file and verify_split.verify_split_files
    zip_file,           \* the file to split
    parts,              \* part name -> bytes of the part files on disk
    written,            \* the part names written by the latest split_file
    split_runs,         \* number of split_file runs so far
    combined,           \* what verify_split_files recombined
    \* update_notebooks.update_notebook
    nb_file,            \* the notebook file
    nb_prev,            \* the notebook file before the latest run
    nb_runs,            \* number of update_notebook runs so far
    nb_written,         \* the latest run wrote the file
    \* load_depth_png
    dp_pc,              \* position
    depth_px,           \* the R and G channels of one depth pixel
    depth_out           \* depth_mm of each copy of load_depth_png

checkVars == <<pc, coco, anns, mask, y, acc, report>>
pairVars == <<fp_pc, annotations, image_id, pairs>>
fsVars == <<temp_exists, metadata_temp, master, ann_file, rebuilt, deleted>>
verifyVars == <<v_pc, temp_files, master_meta, errors>>
vizVars == <<vs_pc, instance_map, unique_ids>>
boxVars == <<vs_coco, vs_anns, vs_out>>
analyzeVars == <<a_pc, dataset, a_env, a_out>>
intrinsicsVars == <<i_pc, caller, depth_file, K, test_errors>>
setupVars == <<s_pc, host, trace, exit_code>>
orderVars == <<o_pc, o_left, o_acc>>
splitVars == <<zip_file, parts, written, split_runs, combined>>
notebookVars == <<nb_file, nb_prev, nb_runs, nb_written>>
depthVars == <<dp_pc, depth_px, depth_out>>
toolVars == <<splitVars, notebookVars, depthVars>>
scriptVars == <<boxVars, analyzeVars, intrinsicsVars, setupVars, orderVars, toolVars>>
vars == <<checkVars, pairVars, fsVars, verifyVars, vizVars, scriptVars>>

EmptyReport ==
    [bijection_confirmed |-> FALSE,
     strawberry_colors |-> {}, peduncle_colors |-> {},
     paired_count |-> 0, strawberry_only |-> 0, peduncle_only |-> 0,
     json_objects |-> {}, violations |-> <<>>, missing |-> <<>>,
     min_id |-> 0, max_id |-> 0, has_zero |-> FALSE,
     checks |-> <<>>, all_passed |-> FALSE]

(***************************************************************************)
(* Values of the variables of a script that is not running.                *)
(***************************************************************************)
NoFile == [state |-> "absent", data |-> <<>>]

IdleCheck ==
    /\ pc = "idle"
    /\ coco = <<>>
    /\ anns = <<>>
    /\ mask = <<>>
    /\ y = 0
    /\ acc = EmptyAcc
    /\ report = EmptyReport

IdlePairs ==
    /\ fp_pc = "idle"
    /\ annotations = <<>>
    /\ image_id = 0
    /\ pairs = <<>>

IdleMetadata ==
    /\ temp_exists = FALSE
    /\ metadata_temp = <<>>
    /\ master = NoFile
    /\ ann_file = NoFile
    /\ rebuilt = FALSE
    /\ deleted = {}
    /\ v_pc = "idle"
    /\ temp_files = {}
    /\ master_meta = <<>>
    /\ errors = <<>>

IdleVisualize ==
    /\ vs_pc = "idle"
    /\ instance_map = <<>>
    /\ unique_ids = {}

IdleBoxes ==
    /\ vs_coco = <<>>
    /\ vs_anns = <<>>
    /\ vs_out = <<>>

IdleAnalyze ==
    /\ a_pc = "idle"
    /\ dataset = <<>>
    /\ a_env = <<>>
    /\ a_out = <<>>

IdleIntrinsics ==
    /\ i_pc = "idle"
    /\ caller = "none"
    /\ depth_file = NoFile
    /\ K = <<>>
    /\ test_errors = <<>>

IdleSetup ==
    /\ s_pc = "idle"
    /\ host = <<>>
    /\ trace = <<>>
    /\ exit_code = -1

IdleOrder ==
    /\ o_pc = "idle"
    /\ o_left = {}
    /\ o_acc = EmptyAcc

IdleSplit ==
    /\ zip_file = NoFile
    /\ parts = <<>>
    /\ written = <<>>
    /\ split_runs = 0
    /\ combined = NoFile

IdleNotebook ==
    /\ nb_file = NoFile
    /\ nb_prev = NoFile
    /\ nb_runs = 0
    /\ nb_written = FALSE

IdleDepth ==
    /\ dp_pc = "idle"
    /\ depth_px = <<0, 0>>
    /\ depth_out = <<>>

IdleTools ==
    /\ IdleSplit
    /\ IdleNotebook
    /\ IdleDepth

IdleScripts ==
    /\ IdleTools
    /\ IdleBoxes
    /\ IdleAnalyze
    /\ IdleIntrinsics
    /\ IdleSetup
    /\ IdleOrder

\* lines 21-39: the mask and the annotations are loaded
InitCheck ==
    /\ pc = "scan"
    /\ coco \in AnnLists
    /\ anns = get_annotations_for_image(coco, sample_id)
    /\ mask \in Masks
    /\ y = 0
    /\ acc = EmptyAcc
    /\ report = EmptyReport
    /\ IdlePairs
    /\ IdleMetadata
    /\ IdleVisualize
    /\ IdleScripts

\* lines 41-67: one iteration of the outer loop, over row y of the mask
ScanRow ==
    /\ pc = "scan"
    /\ y < Height(mask)
    /\ acc' = ScanRowFrom(acc, mask[y + 1], 0, y)
    /\ y' = y + 1
    /\ UNCHANGED <<pc, coco, anns, mask, report, pairVars, fsVars, verifyVars, vizVars, scriptVars>>

\* lines 69-76: end of the scan, the bijection is printed
Verification1 ==
    /\ pc = "scan"
    /\ y = Height(mask)
    /\ report' = [report EXCEPT
                    !.bijection_confirmed =
                        Cardinality(DOMAIN acc.color_map)
                          = Cardinality(DOMAIN acc.object_pixels)]
    /\ pc' = "v2"
    /\ UNCHANGED <<coco, anns, mask, y, acc, pairVars, fsVars, verifyVars, vizVars, scriptVars>>

\* lines 92-93
StrawberryColors(color_map) ==
    {c \in DOMAIN color_map : color_map[c][1] \in Range(StrawberryTypes)}
PeduncleColors(color_map) ==
    {c \in DOMAIN color_map : color_map[c][1] = "peduncle"}

\* lines 85-112
Verification2 ==
    /\ pc = "v2"
    /\ report' = [report EXCEPT
                    !.strawberry_colors = StrawberryColors(acc.color_map),
                    !.peduncle_colors = PeduncleColors(acc.color_map)]
    /\ pc' = "v3"
    /\ UNCHANGED <<coco, anns, mask, y, acc, pairVars, fsVars, verifyVars, vizVars, scriptVars>>

\* lines 122-124: the instance ids of the annotations
ByInstance(as) == {as[i].instance_id : i \in 1..Len(as)}
\* lines 134-136
HasStrawberry(as, inst) ==
    \E i \in 1..Len(as) : as[i].instance_id = inst /\ as[i].category_id \in {0, 1, 2}
HasPeduncle(as, inst) ==
    \E i \in 1..Len(as) : as[i].instance_id = inst /\ as[i].category_id = 3

\* lines 129-143
PairedCount(as) ==
    Cardinality({i \in ByInstance(as) : HasStrawberry(as, i) /\ HasPeduncle(as, i)})
StrawberryOnly(as) ==
    Cardinality({i \in ByInstance(as) : HasStrawberry(as, i) /\ ~HasPeduncle(as, i)})
PeduncleOnly(as) ==
    Cardinality({i \in ByInstance(as) : ~HasStrawberry(as, i) /\ HasPeduncle(as, i)})

\* lines 121-148
Verification3 ==
    /\ pc = "v3"
    /\ report' = [report EXCEPT
                    !.paired_count = PairedCount(anns),
                    !.strawberry_only = StrawberryOnly(anns),
                    !.peduncle_only = PeduncleOnly(anns)]
    /\ pc' = "v4"
    /\ UNCHANGED <<coco, anns, mask, y, acc, pairVars, fsVars, verifyVars, vizVars, scriptVars>>

\* lines 157-163
JsonObjects(as) ==
    {IF as[i].category_id = 3
     THEN <<"peduncle", as[i].instance_id>>
     ELSE <<StrawberryTypes[as[i].category_id + 1], as[i].instance_id>>
       : i \in 1..Len(as)}

\* Violations with the comparison area <= 15
RECURSIVE Violations_Inclusive(_)
Violations_Inclusive(as) ==
    IF as = <<>> THEN <<>>
    ELSE IF Head(as).area <= PixelThreshold
         THEN <<<<Head(as).instance_id, Head(as).category_id, Head(as).area>>>>
              \o Violations_Inclusive(Tail(as))
         ELSE Violations_Inclusive(Tail(as))

\* lines 170-174
RECURSIVE Violations(_)
Violations(as) ==
    IF as = <<>> THEN <<>>
    ELSE IF Head(as).area < PixelThreshold
         THEN <<<<Head(as).instance_id, Head(as).category_id, Head(as).area>>>>
              \o Violations(Tail(as))
         ELSE Violations(Tail(as))

\* line 185: sorted(object_pixels.items(), key=count), a stable sort of the
\* keys in insertion order
RECURSIVE InsertByCount(_, _, _)
InsertByCount(s, k, px) ==
    IF s = <<>> THEN <<k>>
    ELSE IF px[Head(s)] <= px[k] THEN <<Head(s)>> \o InsertByCount(Tail(s), k, px)
    ELSE <<k>> \o s
RECURSIVE SortedByCount(_, _)
SortedByCount(order, px) ==
    IF order = <<>> THEN <<>>
    ELSE InsertByCount(SortedByCount(SubSeq(order, 1, Len(order) - 1), px),
                       order[Len(order)], px)

\* lines 184-187
RECURSIVE Missing(_, _, _)
Missing(keys, px, json_objects) ==
    IF keys = <<>> THEN <<>>
    ELSE IF Head(keys) \notin json_objects
         THEN <<<<Head(keys)[1], Head(keys)[2], px[Head(keys)]>>>>
              \o Missing(Tail(keys), px, json_objects)
         ELSE Missing(Tail(keys), px, json_objects)

\* lines 157-192
Verification4 ==
    /\ pc = "v4"
    /\ report' = [report EXCEPT
                    !.json_objects = JsonObjects(anns),
                    !.violations = Violations(anns),
                    !.missing = Missing(Prefix(SortedByCount(acc.object_order,
                                                             acc.object_pixels),
                                               SampleLimit),
                                        acc.object_pixels, JsonObjects(anns))]
    /\ pc' = "v5"
    /\ UNCHANGED <<coco, anns, mask, y, acc, pairVars, fsVars, verifyVars, vizVars, scriptVars>>

\* AllIds without the id 0
AllIds_NonZero(object_pixels) == {k[2] : k \in DOMAIN object_pixels} \ {0}

\* line 201
AllIds(object_pixels) == {k[2] : k \in DOMAIN object_pixels}

\* lines 201-221; min() of an empty list raises ValueError
Verification5 ==
    /\ pc = "v5"
    /\ IF AllIds(acc.object_pixels) = {}
       THEN /\ pc' = "raised"
            /\ UNCHANGED report
       ELSE /\ pc' = "summary"
            /\ report' = [report EXCEPT
                            !.min_id = SetMin(AllIds(acc.object_pixels)),
                            !.max_id = SetMax(AllIds(acc.object_pixels)),
                            !.has_zero = 0 \in AllIds(acc.object_pixels)]
    /\ UNCHANGED <<coco, anns, mask, y, acc, pairVars, fsVars, verifyVars, vizVars, scriptVars>>

\* line 233
ChannelSeparation(rep) ==
    /\ SetMax({c[2] : c \in rep.strawberry_colors} \cup {0}) = 0
    /\ SetMax({c[3] : c \in rep.peduncle_colors} \cup {0}) = 0

\* lines 230-236
Checks(a, rep) ==
    [RGBEncoding |-> Cardinality(DOMAIN a.color_map) = Cardinality(DOMAIN a.object_pixels),
     Bijection |-> Cardinality(DOMAIN a.color_map) = Cardinality(DOMAIN a.object_pixels),
     ChannelSeparation |-> ChannelSeparation(rep),
     ThresholdApplied |-> Len(rep.violations) = 0,
     IDOffset |-> rep.min_id >= 1 /\ ~rep.has_zero]

\* lines 230-249
FinalSummary ==
    /\ pc = "summary"
    /\ report' = [report EXCEPT
                    !.checks = Checks(acc, report),
                    !.all_passed = \A n \in DOMAIN Checks(acc, report) :
                                       Checks(acc, report)[n]]
    /\ pc' = "done"
    /\ UNCHANGED <<coco, anns, mask, y, acc, pairVars, fsVars, verifyVars, vizVars, scriptVars>>

NextCheck ==
    \/ ScanRow
    \/ Verification1
    \/ Verification2
    \/ Verification3
    \/ Verification4
    \/ Verification5
    \/ FinalSummary

SpecCheck == InitCheck /\ [][NextCheck]_vars

(***************************************************************************)
(* dataset_overview.py: find_matching_pairs.                               *)
(***************************************************************************)
\* the records the argument is made of: strawberries whose parent is
\* peduncle 7, a strawberry without parent, two peduncle records with
\* instance id 7 in image 1, and records of image 2
PairCatalogue ==
    << Ann(1, 1, 0, 20, 7),
       Ann(1, 2, 1, 20, 0),
       Ann(1, 3, 2, 20, 7),
       Ann(1, 7, 3, 20, 0),
       Ann(1, 7, 3, 30, 0),
       Ann(2, 7, 3, 20, 0),
       Ann(2, 4, 0, 20, 7) >>

PairAnnLists == {SeqFilter(PairCatalogue, S) : S \in SUBSET Range(PairCatalogue)}

IsStrawberry(a) == a.category_id \in {0, 1, 2}
IsPeduncle(a) == a.category_id = 3

\* line 612: {p["instance_id"]: p for p in peduncles}, the last record wins
PeduncleMap(peduncles) ==
    [i \in {peduncles[k].instance_id : k \in 1..Len(peduncles)} |->
        peduncles[SetMax({k \in 1..Len(peduncles) : peduncles[k].instance_id = i})]]

\* lines 614-619
RECURSIVE MatchStrawberries(_, _)
MatchStrawberries(strawberries, peduncle_map) ==
    IF strawberries = <<>> THEN <<>>
    ELSE IF Head(strawberries).parent_id \in DOMAIN peduncle_map
         THEN <<<<Head(strawberries), peduncle_map[Head(strawberries).parent_id]>>>>
              \o MatchStrawberries(Tail(strawberries), peduncle_map)
         ELSE MatchStrawberries(Tail(strawberries), peduncle_map)

\* lines 605-621
find_matching_pairs(all_annotations, img) ==
    LET img_anns == get_annotations_for_image(all_annotations, img)
        strawberries == SelectSeq(img_anns, IsStrawberry)
        peduncles == SelectSeq(img_anns, IsPeduncle)
    IN  MatchStrawberries(strawberries, PeduncleMap(peduncles))

InitPairs ==
    /\ fp_pc = "called"
    /\ annotations \in PairAnnLists
    /\ image_id \in {1, 2}
    /\ pairs = <<>>
    /\ IdleCheck
    /\ IdleMetadata
    /\ IdleVisualize
    /\ IdleScripts

FindMatchingPairs ==
    /\ fp_pc = "called"
    /\ pairs' = find_matching_pairs(annotations, image_id)
    /\ fp_pc' = "returned"
    /\ UNCHANGED <<annotations, image_id, checkVars, fsVars, verifyVars, vizVars, scriptVars>>

NextPairs == FindMatchingPairs

SpecPairs == InitPairs /\ [][NextPairs]_vars

(***************************************************************************)
(* The dataset directory: metadata_temp/<id>_meta.json, depth_metadata.json *)
(* and annotations.json.  File names are sequences of tokens, so that      *)
(* str.replace is modelled by what it does to a name.                      *)
(***************************************************************************)
ImageIds == 1..MaxShards

\* file stems as the generator writes them, f"{idx:05d}"
Stem(id) == <<"00001", "00002", "00003", "00004">>[id]
ShardName(id) == <<Stem(id), "_meta.json">>
ImageName(id) == <<Stem(id), ".png">>

\* str.replace(old, new) on a name
Replace(name, old, new) ==
    [i \in 1..Len(name) |-> IF name[i] = old THEN new ELSE name[i]]

\* str.replace(old, "") on a name
RECURSIVE Strip(_, _)
Strip(name, old) ==
    IF name = <<>> THEN <<>>
    ELSE IF Head(name) = old THEN Strip(Tail(name), old)
    ELSE <<Head(name)>> \o Strip(Tail(name), old)

Abs(x) == IF x < 0 THEN 0 - x ELSE x

Meta(mn, mx) == [ok |-> TRUE, min_meters |-> mn, max_meters |-> mx]
Unparsable == [ok |-> FALSE, min_meters |-> 0, max_meters |-> 0]

\* contents of a shard: not JSON, or a depth_range around the tolerance
ShardContents ==
    { Unparsable, Meta(0, 10), Meta(Tolerance, 10), Meta(Tolerance + 1, 10),
      Meta(0, 10 + Tolerance + 1) }
MasterContents == { Meta(0, 10), Meta(Tolerance, 10) }

Directories ==
    UNION {[S -> ShardContents] : S \in SUBSET {ShardName(i) : i \in ImageIds}}
MasterMaps ==
    UNION {[S -> MasterContents] : S \in SUBSET {ImageName(i) : i \in ImageIds}}

FileOf(d) == [state |-> "ok", data |-> d]
BadFile == [state |-> "unparsable", data |-> <<>>]

\* glob("*_meta.json")
Glob(dir) == {n \in DOMAIN dir : n[Len(n)] = "_meta.json"}

InitMetadata ==
    /\ temp_exists \in BOOLEAN
    /\ metadata_temp \in (IF temp_exists THEN Directories ELSE {<<>>})
    /\ master \in {NoFile, BadFile} \cup {FileOf(m) : m \in MasterMaps}
    /\ ann_file \in {NoFile, BadFile} \cup {FileOf(n) : n \in 0..MaxShards}
    /\ rebuilt = FALSE
    /\ deleted = {}
    /\ v_pc = "idle"
    /\ temp_files = {}
    /\ master_meta = <<>>
    /\ errors = <<>>
    /\ IdleCheck
    /\ IdlePairs
    /\ IdleVisualize
    /\ IdleScripts

(***************************************************************************)
(* update_notebooks.py: reconstruct_metadata, called by validate_root.     *)
(***************************************************************************)
\* ImageOfShard that keeps the _meta.json suffix
ImageOfShard_KeepSuffix(name) == Append(name, ".png")

\* lines 33-34: 00001_meta.json -> 00001.png
ImageOfShard(name) == Append(Strip(name, "_meta.json"), ".png")

\* CombinedMetadata with an entry for every shard, readable or not
CombinedMetadata_AllShards(dir) ==
    [img \in {ImageOfShard(n) : n \in Glob(dir)} |->
        dir[CHOOSE n \in Glob(dir) : ImageOfShard(n) = img]]

\* lines 29-40: the shards that parse, keyed by image name
CombinedMetadata(dir) ==
    LET readable == {n \in Glob(dir) : dir[n].ok} IN
    [img \in {ImageOfShard(n) : n \in readable} |->
        dir[CHOOSE n \in readable : ImageOfShard(n) = img]]

\* lines 17-51: the value returned and the file written, if any
reconstruct_metadata(exists, dir) ==
    IF ~exists THEN [returned |-> FALSE, written |-> NoFile]
    ELSE IF CombinedMetadata(dir) = <<>>
         THEN [returned |-> FALSE, written |-> NoFile]
    ELSE [returned |-> TRUE, written |-> FileOf(CombinedMetadata(dir))]

\* lines 58-64: the value returned and depth_metadata.json afterwards
validate_root(m, exists, dir) ==
    IF m.state # "absent" THEN [returned |-> TRUE, master |-> m]
    ELSE IF exists
         THEN [returned |-> reconstruct_metadata(exists, dir).returned,
               master |-> reconstruct_metadata(exists, dir).written]
    ELSE [returned |-> FALSE, master |-> m]

\* validate_root on the dataset directory, lines 58-64 and 17-51
ReconstructMetadata ==
    /\ v_pc = "idle"
    /\ master' = validate_root(master, temp_exists, metadata_temp).master
    /\ rebuilt' = (rebuilt \/ master' # master)
    /\ UNCHANGED <<temp_exists, metadata_temp, ann_file, deleted,
                   checkVars, pairVars, verifyVars, vizVars, scriptVars>>

\* a shard file is deleted between two runs of the verification
DeleteShard ==
    /\ v_pc = "returned"
    /\ rebuilt
    /\ Cardinality(deleted) < MaxDeleted
    /\ \E n \in DOMAIN metadata_temp :
          /\ metadata_temp' = [m \in DOMAIN metadata_temp \ {n} |-> metadata_temp[m]]
          /\ deleted' = deleted \cup {n}
    /\ v_pc' = "idle"
    /\ UNCHANGED <<temp_exists, master, ann_file, rebuilt,
                   temp_files, master_meta, errors, checkVars, pairVars, vizVars, scriptVars>>

(***************************************************************************)
(* verify_incremental_metadata.py: verify_dataset.                         *)
(***************************************************************************)
\* lines 5-16
VerifyStart ==
    /\ v_pc = "idle"
    /\ errors' = <<>>
    /\ temp_files' = Glob(metadata_temp)
    /\ master_meta' = <<>>
    /\ v_pc' = "master"
    /\ UNCHANGED <<fsVars, checkVars, pairVars, vizVars, scriptVars>>

\* lines 18-29
CheckMaster ==
    /\ v_pc = "master"
    /\ IF master.state = "absent"
       THEN /\ errors' = Append(errors, <<"MasterNotFound">>)
            /\ v_pc' = "returned"
            /\ UNCHANGED master_meta
       ELSE IF master.state = "unparsable"
       THEN /\ errors' = Append(errors, <<"MasterParse">>)
            /\ v_pc' = "returned"
            /\ UNCHANGED master_meta
       ELSE /\ master_meta' = master.data
            /\ v_pc' = "annotations"
            /\ UNCHANGED errors
    /\ UNCHANGED <<temp_files, fsVars, checkVars, pairVars, vizVars, scriptVars>>

\* lines 31-43
CheckAnnotations ==
    /\ v_pc = "annotations"
    /\ errors' =
         IF ann_file.state = "absent"
         THEN Append(errors, <<"AnnotationsNotFound">>)
         ELSE IF ann_file.state = "unparsable"
         THEN Append(errors, <<"AnnotationsParse">>)
         ELSE IF ann_file.data # Cardinality(DOMAIN master_meta)
         THEN Append(errors, <<"CountMismatch", ann_file.data,
                               Cardinality(DOMAIN master_meta)>>)
         ELSE errors
    /\ v_pc' = "temp"
    /\ UNCHANGED <<temp_files, master_meta, fsVars, checkVars, pairVars, vizVars, scriptVars>>

\* lines 62-66
DataMismatch(t_data, m_data) ==
    Abs(t_data.min_meters - m_data.min_meters) > Tolerance

\* lines 47-66: one iteration, for one of the files glob returned; json.load
\* of a shard that is not JSON raises
CheckTempFile ==
    /\ v_pc = "temp"
    /\ \E temp_file \in temp_files :
         LET image_name == Replace(temp_file, "_meta.json", ".png") IN
         /\ temp_files' = temp_files \ {temp_file}
         /\ IF image_name \notin DOMAIN master_meta
            THEN /\ errors' = Append(errors, <<"NotInMaster", temp_file, image_name>>)
                 /\ UNCHANGED v_pc
            ELSE IF ~metadata_temp[temp_file].ok
            THEN /\ v_pc' = "raised"
                 /\ UNCHANGED errors
            ELSE IF DataMismatch(metadata_temp[temp_file], master_meta[image_name])
            THEN /\ errors' = Append(errors,
                                <<"DataMismatch", image_name,
                                  metadata_temp[temp_file].min_meters,
                                  master_meta[image_name].min_meters>>)
                 /\ UNCHANGED v_pc
            ELSE UNCHANGED <<errors, v_pc>>
    /\ UNCHANGED <<master_meta, fsVars, checkVars, pairVars, vizVars, scriptVars>>

\* lines 69-74: the loop over the master entries, from image id k on
RECURSIVE MissingShards(_, _, _)
MissingShards(k, meta, dir) ==
    IF k > MaxShards THEN <<>>
    ELSE IF /\ ImageName(k) \in DOMAIN meta
            /\ Replace(ImageName(k), ".png", "_meta.json") \notin DOMAIN dir
         THEN <<<<"MissingShard", ImageName(k),
                  Replace(ImageName(k), ".png", "_meta.json")>>>>
              \o MissingShards(k + 1, meta, dir)
         ELSE MissingShards(k + 1, meta, dir)

\* lines 68-74
CheckMasterEntries ==
    /\ v_pc = "temp"
    /\ temp_files = {}
    /\ errors' = errors \o MissingShards(1, master_meta, metadata_temp)
    /\ v_pc' = "report"
    /\ UNCHANGED <<temp_files, master_meta, fsVars, checkVars, pairVars, vizVars, scriptVars>>

\* lines 76-81
Report ==
    /\ v_pc = "report"
    /\ v_pc' = "returned"
    /\ UNCHANGED <<temp_files, master_meta, errors, fsVars, checkVars, pairVars, vizVars, scriptVars>>

NextMetadata ==
    \/ ReconstructMetadata
    \/ DeleteShard
    \/ VerifyStart
    \/ CheckMaster
    \/ CheckAnnotations
    \/ CheckTempFile
    \/ CheckMasterEntries
    \/ Report

SpecMetadata == InitMetadata /\ [][NextMetadata]_vars

(***************************************************************************)
(* visualize_sample.py: the instance map of the mask.                      *)
(***************************************************************************)
\* InstanceMap that reads the R channel of every pixel
InstanceMap_AlwaysRed(m) ==
    [i \in 1..Height(m) |-> [j \in 1..Width(m) |-> m[i][j][3]]]

\* line 56: np.where(mask_b == 3, mask_g, mask_r)
InstanceMap(m) ==
    [i \in 1..Height(m) |->
        [j \in 1..Width(m) |->
            IF m[i][j][1] = 3 THEN m[i][j][2] ELSE m[i][j][3]]]

\* lines 58-59: np.unique, then the ids > 0
UniqueIds(im) ==
    {id \in {im[i][j] : i \in 1..Len(im), j \in 1..Width(im)} : id > 0}

\* lines 49-59
ParseMask ==
    /\ vs_pc = "parse"
    /\ instance_map' = InstanceMap(mask)
    /\ unique_ids' = UniqueIds(InstanceMap(mask))
    /\ vs_pc' = "annotations"
    /\ UNCHANGED <<checkVars, pairVars, fsVars, verifyVars, scriptVars>>

(***************************************************************************)
(* Both scripts on one sample: a small mask read by comprehensive_check    *)
(* and by visualize_sample.                                                *)
(***************************************************************************)
SamplePalette ==
    { Background,
      <<0, 0, 1>>,     \* ripe, id 1
      <<3, 1, 0>>,     \* peduncle, id 1
      <<1, 0, 0>>,     \* unripe, id 0
      <<4, 0, 2>> }    \* invalid category, R = 2

SampleMasks ==
    [1..SampleRows ->
        {MaskRow(c1, c2, SampleCols) : c1 \in SamplePalette, c2 \in SamplePalette}]

SampleAnnCatalogue ==
    << Ann(sample_id, 1, 0, PixelThreshold, 1),
       Ann(sample_id, 1, PeduncleCategory, PixelThreshold, 0) >>

SampleAnnLists ==
    {SeqFilter(SampleAnnCatalogue, S) : S \in SUBSET Range(SampleAnnCatalogue)}

InitSample ==
    /\ pc = "scan"
    /\ coco \in SampleAnnLists
    /\ anns = get_annotations_for_image(coco, sample_id)
    /\ mask \in SampleMasks
    /\ y = 0
    /\ acc = EmptyAcc
    /\ report = EmptyReport
    /\ vs_pc = "parse"
    /\ instance_map = <<>>
    /\ unique_ids = {}
    /\ IdlePairs
    /\ IdleMetadata
    /\ IdleScripts

NextSample ==
    \/ NextCheck
    \/ ParseMask

SpecSample == InitSample /\ [][NextSample]_vars

(***************************************************************************)
(* analyze_current_dataset.py: test_current_dataset.                       *)
(***************************************************************************)
\* line 116
Target == 1000

Unbound == [bound |-> FALSE, value |-> <<>>]
Bound(v) == [bound |-> TRUE, value |-> v]

\* the stems of images/*.png, in the order sorted() gives them
StemCatalogue == <<"00000", "00001", "00003", "01000", "cover">>
PngLists == {SeqFilter(StemCatalogue, S) : S \in SUBSET Range(StemCatalogue)}

\* line 33: int(filename); a stem outside the domain raises ValueError
IntOfStem ==
    ("00000" :> 0) @@ ("00001" :> 1) @@ ("00003" :> 3) @@ ("01000" :> 1000)

\* what json.load gives for annotations.json: a dict with its images and
\* annotations (each entry reduced to its id), or a list
AnnotationsData ==
    {[kind |-> "dict", images |-> im, annotations |-> an] :
        im \in {<<>>, <<0>>, <<0, 0>>, <<0, 1>>},
        an \in {<<>>, <<1>>, <<1, 1>>}}
    \cup {[kind |-> "list", images |-> <<>>, annotations |-> <<>>]}

AnnotationsFiles ==
    {NoFile, [state |-> "unparsable", data |-> <<>>]}
    \cup {[state |-> "ok", data |-> d] : d \in AnnotationsData}

\* depth_metadata.json: its entries
DepthFiles ==
    {NoFile, [state |-> "unparsable", data |-> <<>>],
     [state |-> "ok", data |-> <<>>],
     [state |-> "ok", data |-> <<"00000.png", "00001.png">>]}

Datasets ==
    {[images_exists |-> TRUE, pngs |-> p, annotations |-> a, depth |-> d] :
        p \in PngLists, a \in AnnotationsFiles, d \in DepthFiles}
    \cup {[images_exists |-> FALSE, pngs |-> <<>>, annotations |-> a, depth |-> d] :
        a \in AnnotationsFiles, d \in DepthFiles}

InitAnalyze ==
    /\ a_pc = "images"
    /\ dataset \in Datasets
    /\ a_env = [existing_images |-> <<>>, indices |-> <<>>, max_index |-> 0,
                gaps |-> {}, images |-> Unbound, annotations |-> Unbound,
                remaining |-> 0]
    /\ a_out = <<>>
    /\ IdleCheck
    /\ IdlePairs
    /\ IdleMetadata
    /\ IdleVisualize
    /\ IdleBoxes
    /\ IdleIntrinsics
    /\ IdleSetup
    /\ IdleOrder
    /\ IdleTools

otherThanAnalyze ==
    <<checkVars, pairVars, fsVars, verifyVars, vizVars,
      boxVars, intrinsicsVars, setupVars, orderVars, toolVars>>

\* lines 28-37: the indices of the numeric stems
RECURSIVE Indices(_)
Indices(stems) ==
    IF stems = <<>> THEN <<>>
    ELSE (IF Head(stems) \in DOMAIN IntOfStem
          THEN <<IntOfStem[Head(stems)]>> ELSE <<>>)
         \o Indices(Tail(stems))

\* lines 28-35: max_index starts at 0
MaxIndex(indices) == SetMax({0} \cup Range(indices))

\* lines 36-37: one warning per non-numeric stem
NonNumericWarnings(stems) ==
    [k \in 1..Cardinality({j \in DOMAIN stems : stems[j] \notin DOMAIN IntOfStem})
        |-> "NonNumeric"]

\* lines 16-49
AnalyzeImages ==
    /\ a_pc = "images"
    /\ IF ~dataset.images_exists
       THEN /\ a_out' = Append(a_out, "ImagesFolderNotFound")
            /\ a_pc' = "returned"
            /\ UNCHANGED a_env
       ELSE LET existing_images == dataset.pngs
                indices == Indices(existing_images)
                max_index == MaxIndex(indices)
                gaps == (0..max_index) \ Range(indices)
            IN /\ a_env' = [a_env EXCEPT !.existing_images = existing_images,
                                         !.indices = indices,
                                         !.max_index = max_index,
                                         !.gaps = gaps]
               /\ a_out' =
                    IF existing_images = <<>> THEN Append(a_out, "Found")
                    ELSE Append(a_out, "Found")
                         \o NonNumericWarnings(existing_images)
                         \o <<"MaxIndex",
                              IF gaps # {} THEN "Gaps" ELSE "NoGaps">>
               /\ a_pc' = "annotations"
    /\ UNCHANGED <<dataset, otherThanAnalyze>>

HasDuplicates(ids) == Len(ids) # Cardinality(Range(ids))

\* lines 59-87: what the try block prints for a parsed document, up to the
\* exception it raises, if any
AnnotationsReport(data) ==
    IF data.kind # "dict" THEN <<"Error">>                \* line 59: no .get
    ELSE <<"Counts">>
         \o (IF data.images # <<>> THEN <<"ImageIds">> ELSE <<>>)
         \o (IF data.annotations = <<>> THEN <<>>
             ELSE IF data.images = <<>>
                  THEN <<"AnnotationIds", "Error">>       \* line 74: / 0
                  ELSE <<"AnnotationIds", "Average">>)
         \o (IF data.annotations # <<>> /\ data.images = <<>> THEN <<>>
             ELSE << IF HasDuplicates(data.images)
                     THEN "DuplicateImageIds" ELSE "NoDuplicateImageIds",
                     IF HasDuplicates(data.annotations)
                     THEN "DuplicateAnnotationIds"
                     ELSE "NoDuplicateAnnotationIds" >>)

\* lines 51-94
AnalyzeAnnotations ==
    /\ a_pc = "annotations"
    /\ LET f == dataset.annotations IN
       CASE f.state = "absent" ->
              /\ a_out' = Append(a_out, "AnnotationsNotFound")
              /\ UNCHANGED a_env
         [] f.state = "unparsable" ->
              /\ a_out' = a_out \o <<"AnnotationsHeader", "JSONParseError">>
              /\ UNCHANGED a_env
         [] f.state = "ok" ->
              /\ a_out' = a_out \o <<"AnnotationsHeader">>
                                \o AnnotationsReport(f.data)
              /\ a_env' =
                   IF f.data.kind = "dict"
                   THEN [a_env EXCEPT !.images = Bound(f.data.images),
                                      !.annotations = Bound(f.data.annotations)]
                   ELSE a_env
    /\ a_pc' = "depth"
    /\ UNCHANGED <<dataset, otherThanAnalyze>>

\* lines 96-108
AnalyzeDepth ==
    /\ a_pc = "depth"
    /\ a_out' =
         CASE dataset.depth.state = "absent" -> Append(a_out, "DepthNotFound")
           [] dataset.depth.state = "unparsable" ->
                a_out \o <<"DepthHeader", "DepthInvalid">>
           [] dataset.depth.state = "ok" ->
                a_out \o <<"DepthHeader", "DepthEntries", "DepthValid">>
    /\ a_pc' = "summary"
    /\ UNCHANGED <<dataset, a_env, otherThanAnalyze>>

\* lines 110-133; lines 125 and 126 read the locals images and annotations,
\* which only lines 59 and 60 bind
AnalyzeSummary ==
    /\ a_pc = "summary"
    /\ IF a_env.existing_images # <<>>
       THEN /\ a_env' = [a_env EXCEPT
                            !.remaining = Target - a_env.max_index - 1]
            /\ IF a_env.images.bound /\ a_env.annotations.bound
               THEN /\ a_out' = a_out \o <<"SUMMARY", "CurrentState",
                                           "NextRun", "SafeToRun">>
                    /\ a_pc' = "done"
               ELSE /\ a_out' = a_out \o <<"SUMMARY", "CurrentState">>
                    /\ a_pc' = "raised"
       ELSE /\ a_out' = a_out \o <<"SUMMARY", "NoExistingImages">>
            /\ a_pc' = "done"
            /\ UNCHANGED a_env
    /\ UNCHANGED <<dataset, otherThanAnalyze>>

NextAnalyze ==
    \/ AnalyzeImages
    \/ AnalyzeAnnotations
    \/ AnalyzeDepth
    \/ AnalyzeSummary

SpecAnalyze == InitAnalyze /\ [][NextAnalyze]_vars

(***************************************************************************)
(* load_depth_metadata, get_intrinsics_matrix and their callers in         *)
(* dataset_overview.py and test_dataset_functions.py.  The entries of a    *)
(* camera matrix are in hundredths.                                        *)
(***************************************************************************)
\* dataset_overview.py lines 575-579, test_dataset_functions.py line 234
DefaultK == << <<88681, 0, 51200>>, <<0, 88681, 51200>>, <<0, 0, 100>> >>

Intr(fx, fy, cx, cy) == [present |-> TRUE, fx |-> fx, fy |-> fy, cx |-> cx, cy |-> cy]
NoIntr == [present |-> FALSE, fx |-> 0, fy |-> 0, cx |-> 0, cy |-> 0]

\* the entries depth_metadata.json is made of: image name and its
\* "camera_intrinsics", one entry without that key
MetadataCatalogue ==
    << [name |-> "00000.png", intr |-> Intr(88681, 88681, 51200, 51200)],
       [name |-> "00001.png", intr |-> NoIntr],
       [name |-> "00002.png", intr |-> Intr(60000, 60000, 32000, 24000)],
       [name |-> "00003.png", intr |-> Intr(88681, 88681, 51200, 51200)],
       [name |-> "00004.png", intr |-> Intr(60000, 88681, 51200, 24000)] >>

MetadataFiles ==
    {NoFile, [state |-> "unparsable", data |-> <<>>]}
    \cup {[state |-> "ok", data |-> SeqFilter(MetadataCatalogue, S)] :
            S \in SUBSET Range(MetadataCatalogue)}

Callers == {"cell", "overview_tests", "functions_tests"}

\* test_dataset_functions.py lines 91-100 and, the same statements,
\* dataset_overview.py lines 486-506: {} when the file is absent or is not
\* valid JSON
load_depth_metadata(file) == IF file.state = "ok" THEN file.data ELSE <<>>

\* get_intrinsics_matrix: KeyError without "camera_intrinsics"
get_intrinsics_matrix(metadata) ==
    IF metadata.intr.present
    THEN [raised |-> FALSE,
          K |-> << <<metadata.intr.fx, 0, metadata.intr.cx>>,
                   <<0, metadata.intr.fy, metadata.intr.cy>>,
                   <<0, 0, 100>> >>]
    ELSE [raised |-> TRUE, K |-> <<>>]

NoK == [state |-> "unbound", value |-> <<>>]
NoneK == [state |-> "None", value |-> <<>>]
Matrix(m) == [state |-> "matrix", value |-> m]

InitIntrinsics ==
    /\ i_pc = "k"
    /\ caller \in Callers
    /\ depth_file \in MetadataFiles
    /\ K = NoK
    /\ test_errors = <<>>
    /\ IdleCheck
    /\ IdlePairs
    /\ IdleMetadata
    /\ IdleVisualize
    /\ IdleBoxes
    /\ IdleAnalyze
    /\ IdleSetup
    /\ IdleOrder
    /\ IdleTools

otherThanIntrinsics ==
    <<checkVars, pairVars, fsVars, verifyVars, vizVars,
      boxVars, analyzeVars, setupVars, orderVars, toolVars>>

\* dataset_overview.py lines 554-580, at module level
ModuleCell ==
    /\ caller = "cell"
    /\ i_pc = "k"
    /\ LET depth_metadata == load_depth_metadata(depth_file) IN
       IF depth_metadata # <<>>
       THEN LET built == get_intrinsics_matrix(depth_metadata[1]) IN
            IF built.raised
            THEN /\ i_pc' = "raised"
                 /\ UNCHANGED K
            ELSE /\ K' = Matrix(built.K)
                 /\ i_pc' = "done"
       ELSE /\ K' = Matrix(DefaultK)
            /\ i_pc' = "done"
    /\ UNCHANGED <<caller, depth_file, test_errors, otherThanIntrinsics>>

\* dataset_overview.py lines 901-911: Test 9 of run_tests
OverviewTest9 ==
    /\ caller = "overview_tests"
    /\ i_pc = "k"
    /\ LET metadata == load_depth_metadata(depth_file) IN
       IF metadata = <<>>                         \* line 905: IndexError
       THEN /\ test_errors' = Append(test_errors, "Test 9 FAILED")
            /\ UNCHANGED K
       ELSE LET built == get_intrinsics_matrix(metadata[1]) IN
            IF built.raised
            THEN /\ test_errors' = Append(test_errors, "Test 9 FAILED")
                 /\ UNCHANGED K
            ELSE /\ K' = Matrix(built.K)
                 /\ UNCHANGED test_errors
    /\ i_pc' = "use"
    /\ UNCHANGED <<caller, depth_file, otherThanIntrinsics>>

\* dataset_overview.py lines 913-921: Test 10 reads the local K
OverviewTest10 ==
    /\ caller = "overview_tests"
    /\ i_pc = "use"
    /\ test_errors' = IF K.state = "unbound"
                      THEN Append(test_errors, "Test 10 FAILED")
                      ELSE test_errors
    /\ i_pc' = "done"
    /\ UNCHANGED <<caller, depth_file, K, otherThanIntrinsics>>

\* test_dataset_functions.py lines 223-239: Test 9 of run_tests
FunctionsTest9 ==
    /\ caller = "functions_tests"
    /\ i_pc = "k"
    /\ LET metadata == load_depth_metadata(depth_file) IN
       IF metadata # <<>>
       THEN LET built == get_intrinsics_matrix(metadata[1]) IN
            IF built.raised
            THEN /\ test_errors' = Append(test_errors, "Test 9 FAILED")
                 /\ K' = NoneK
            ELSE /\ K' = Matrix(built.K)
                 /\ UNCHANGED test_errors
       ELSE /\ K' = Matrix(DefaultK)
            /\ UNCHANGED test_errors
    /\ i_pc' = "use"
    /\ UNCHANGED <<caller, depth_file, otherThanIntrinsics>>

\* test_dataset_functions.py lines 241-253: Test 10, skipped when K is None
FunctionsTest10 ==
    /\ caller = "functions_tests"
    /\ i_pc = "use"
    /\ i_pc' = "done"
    /\ UNCHANGED <<caller, depth_file, K, test_errors, otherThanIntrinsics>>

NextIntrinsics ==
    \/ ModuleCell
    \/ OverviewTest9
    \/ OverviewTest10
    \/ FunctionsTest9
    \/ FunctionsTest10

SpecIntrinsics == InitIntrinsics /\ [][NextIntrinsics]_vars

(***************************************************************************)
(* setup_local_env.py: main and the exit status.                           *)
(***************************************************************************)
\* what the user may type at the prompt of line 37
Responses == {"y", "Y", "n", ""}

\* line 38: response.lower()
Lower(response) == IF response = "Y" THEN "y" ELSE response

Hosts ==
    {[venv_existed |-> e, venv_exists |-> e, response |-> r,
      rmtree_fails |-> f, requirements_exists |-> q] :
        e \in BOOLEAN, r \in Responses, f \in BOOLEAN, q \in BOOLEAN}

\* run_command with its result mistaken for a success
run_command_IgnoreFailure(completed) == TRUE

\* lines 11-22: True when the command completes, False on
\* CalledProcessError
run_command(completed) == completed

Outcome(completed) == IF completed THEN "ok" ELSE "failed"

InitSetup ==
    /\ s_pc = "start"
    /\ host \in Hosts
    /\ trace = <<>>
    /\ exit_code = -1
    /\ IdleCheck
    /\ IdlePairs
    /\ IdleMetadata
    /\ IdleVisualize
    /\ IdleBoxes
    /\ IdleAnalyze
    /\ IdleIntrinsics
    /\ IdleOrder
    /\ IdleTools

otherThanSetup ==
    <<checkVars, pairVars, fsVars, verifyVars, vizVars,
      boxVars, analyzeVars, intrinsicsVars, orderVars, toolVars>>

\* lines 35-43: an existing venv is removed on the answer "y"; rmtree may
\* raise, and the exception leaves the interpreter with status 1
AskRecreate ==
    /\ s_pc = "start"
    /\ IF host.venv_exists /\ Lower(host.response) = "y"
       THEN IF host.rmtree_fails
            THEN /\ s_pc' = "exited"
                 /\ exit_code' = 1
                 /\ UNCHANGED host
            ELSE /\ host' = [host EXCEPT !.venv_exists = FALSE]
                 /\ s_pc' = "venv"
                 /\ UNCHANGED exit_code
       ELSE /\ s_pc' = "venv"
            /\ UNCHANGED <<host, exit_code>>
    /\ UNCHANGED <<trace, otherThanSetup>>

\* one step of main that runs a command: on failure main returns False
RunStep(step, next, completed) ==
    IF run_command(completed)
    THEN /\ trace' = Append(trace, <<step, Outcome(completed)>>)
         /\ s_pc' = next
    ELSE /\ trace' = trace \o << <<step, Outcome(completed)>>,
                                 <<"return", "False">> >>
         /\ s_pc' = "returned"

\* lines 45-51
CreateVenv ==
    /\ s_pc = "venv"
    /\ IF ~host.venv_exists
       THEN \E completed \in BOOLEAN :
              /\ RunStep("venv", "pip", completed)
              /\ host' = [host EXCEPT !.venv_exists = completed]
       ELSE /\ s_pc' = "pip"
            /\ UNCHANGED <<trace, host>>
    /\ UNCHANGED <<exit_code, otherThanSetup>>

\* lines 67-72
UpgradePip ==
    /\ s_pc = "pip"
    /\ \E completed \in BOOLEAN : RunStep("pip", "requirements", completed)
    /\ UNCHANGED <<host, exit_code, otherThanSetup>>

\* lines 74-84
InstallRequirements ==
    /\ s_pc = "requirements"
    /\ IF ~host.requirements_exists
       THEN /\ trace' = trace \o << <<"requirements", "missing">>,
                                    <<"return", "False">> >>
            /\ s_pc' = "returned"
       ELSE \E completed \in BOOLEAN :
              RunStep("requirements", "jupyter", completed)
    /\ UNCHANGED <<host, exit_code, otherThanSetup>>

\* lines 86-91
InstallJupyter ==
    /\ s_pc = "jupyter"
    /\ \E completed \in BOOLEAN : RunStep("jupyter", "kernel", completed)
    /\ UNCHANGED <<host, exit_code, otherThanSetup>>

\* lines 93-123: a failed kernel creation gives a warning only; main
\* returns True
CreateKernel ==
    /\ s_pc = "kernel"
    /\ \E completed \in BOOLEAN :
         trace' = trace \o << <<"kernel", Outcome(completed)>>,
                              <<"return", "True">> >>
    /\ s_pc' = "returned"
    /\ UNCHANGED <<host, exit_code, otherThanSetup>>

\* lines 125-127: sys.exit(0 if success else 1)
Exit ==
    /\ s_pc = "returned"
    /\ exit_code' = IF trace[Len(trace)] = <<"return", "True">> THEN 0 ELSE 1
    /\ s_pc' = "exited"
    /\ UNCHANGED <<host, trace, otherThanSetup>>

NextSetup ==
    \/ AskRecreate
    \/ CreateVenv
    \/ UpgradePip
    \/ InstallRequirements
    \/ InstallJupyter
    \/ CreateKernel
    \/ Exit

SpecSetup == InitSetup /\ [][NextSetup]_vars

(***************************************************************************)
(* comprehensive_check.py: the pixels of one mask visited twice, by the    *)
(* loops of lines 41-42 and in an arbitrary order.                         *)
(***************************************************************************)
OrderPalette ==
    { Background,
      <<0, 0, 1>>,     \* ripe, id 1
      <<0, 1, 1>>,     \* ripe, id 1, a second colour of the same object
      <<3, 1, 0>>,     \* peduncle, id 1
      <<4, 0, 0>> }    \* invalid category

OrderMasks == {<<row>> : row \in [1..OrderCols -> OrderPalette]}

\* the coordinates (x, y) of the pixels of a mask
Coordinates(m) == (0..(Width(m) - 1)) \X (0..(Height(m) - 1))

InitOrder ==
    /\ pc = "scan"
    /\ coco = <<>>
    /\ anns = <<>>
    /\ mask \in OrderMasks
    /\ y = 0
    /\ acc = EmptyAcc
    /\ report = EmptyReport
    /\ o_pc = "visit"
    /\ o_left = Coordinates(mask)
    /\ o_acc = EmptyAcc
    /\ IdlePairs
    /\ IdleMetadata
    /\ IdleVisualize
    /\ IdleBoxes
    /\ IdleAnalyze
    /\ IdleIntrinsics
    /\ IdleSetup
    /\ IdleTools

\* lines 43-67 for one pixel not visited yet, whichever it is
VisitPixel ==
    /\ o_pc = "visit"
    /\ \E p \in o_left :
         /\ o_acc' = ScanPixel(o_acc, mask[p[2] + 1][p[1] + 1], p[1], p[2])
         /\ o_left' = o_left \ {p}
         /\ o_pc' = IF o_left = {p} THEN "visited" ELSE "visit"
    /\ UNCHANGED <<checkVars, pairVars, fsVars, verifyVars, vizVars,
                   boxVars, analyzeVars, intrinsicsVars, setupVars, toolVars>>

NextOrder ==
    \/ ScanRow
    \/ VisitPixel

SpecOrder == InitOrder /\ [][NextOrder]_vars

(***************************************************************************)
(* visualize_sample.py: the image lookup and the loop over the             *)
(* annotations of the image.                                               *)
(***************************************************************************)
BoxAnn(img, inst, cat, bbox) ==
    [image_id |-> img, instance_id |-> inst, category_id |-> cat, bbox |-> bbox]

\* the annotations of annotations.json: a strawberry and a peduncle of
\* instance id 1, an instance 2 with an empty bbox; bbox is [x, y, w, h]
BoxAnnCatalogue ==
    << BoxAnn(sample_id, 1, 0, <<0, 0, 2, 2>>),
       BoxAnn(sample_id, 1, PeduncleCategory, <<0, 0, 1, 2>>),
       BoxAnn(sample_id, 2, 1, <<0, 0, 0, 0>>) >>

BoxAnnLists ==
    {SeqFilter(BoxAnnCatalogue, S) : S \in SUBSET Range(BoxAnnCatalogue)}

\* lines 15-16 and 37: f"{sample_idx:05d}.png"
FileNameOf(sample_idx) == <<"00001.png", "00002.png">>[sample_idx]

\* coco['images']: without the sample, or with it
ImageLists ==
    { << [id |-> sample_id + 1, file_name |-> FileNameOf(sample_id + 1)] >>,
      << [id |-> sample_id + 1, file_name |-> FileNameOf(sample_id + 1)],
         [id |-> sample_id, file_name |-> FileNameOf(sample_id)] >> }

InitVisualize ==
    /\ vs_pc = "lookup"
    /\ vs_coco \in {[images |-> im, annotations |-> an] :
                       im \in ImageLists, an \in BoxAnnLists}
    /\ vs_anns = <<>>
    /\ vs_out = <<>>
    /\ instance_map = <<>>
    /\ unique_ids = {}
    /\ pc = "idle"
    /\ coco = <<>>
    /\ anns = <<>>
    /\ mask \in SampleMasks
    /\ y = 0
    /\ acc = EmptyAcc
    /\ report = EmptyReport
    /\ IdlePairs
    /\ IdleMetadata
    /\ IdleAnalyze
    /\ IdleIntrinsics
    /\ IdleSetup
    /\ IdleOrder
    /\ IdleTools

otherThanVisualize ==
    <<checkVars, pairVars, fsVars, verifyVars,
      analyzeVars, intrinsicsVars, setupVars, orderVars, toolVars>>

\* line 38: the first image whose file_name is the target, or None
RECURSIVE ImageInfo(_, _)
ImageInfo(images, target_filename) ==
    IF images = <<>> THEN <<>>
    ELSE IF Head(images).file_name = target_filename THEN <<Head(images)>>
    ELSE ImageInfo(Tail(images), target_filename)

\* lines 33-47
FindImage ==
    /\ vs_pc = "lookup"
    /\ LET image_info == ImageInfo(vs_coco.images, FileNameOf(sample_id)) IN
       IF image_info = <<>>
       THEN /\ vs_pc' = "returned"
            /\ UNCHANGED vs_anns
       ELSE /\ vs_anns' = get_annotations_for_image(vs_coco.annotations,
                                                     image_info[1].id)
            /\ vs_pc' = "parse"
    /\ UNCHANGED <<vs_coco, vs_out, instance_map, unique_ids, otherThanVisualize>>

\* line 79 and line 83: the (row, col) of the pixels of an instance id
MaskBool(im, inst_id) ==
    {q \in (0..(Len(im) - 1)) \X (0..(Width(im) - 1)) :
        im[q[1] + 1][q[2] + 1] = inst_id}

\* line 97: pixel_count / json_area, as numerator and denominator
Ratio(pixel_count, json_area) ==
    IF json_area > 0 THEN <<pixel_count, json_area>> ELSE <<0, 1>>

\* lines 71-106 for one annotation
Compare(ann, im) ==
    LET inst_id == ann.instance_id
        jw == ann.bbox[3]
        jh == ann.bbox[4]
        mask_bool == MaskBool(im, inst_id)
        pixel_count == Cardinality(mask_bool)
    IN IF pixel_count > 0
       THEN LET y0 == SetMin({q[1] : q \in mask_bool})
                y1 == SetMax({q[1] : q \in mask_bool})
                x0 == SetMin({q[2] : q \in mask_bool})
                x1 == SetMax({q[2] : q \in mask_bool})
                json_area == jw * jh
                mask_area == (x1 - x0 + 1) * (y1 - y0 + 1)
            IN [inst_id |-> inst_id, cat_id |-> ann.category_id,
                in_mask |-> TRUE,
                pixel_count |-> pixel_count,
                x0 |-> x0, y0 |-> y0, x1 |-> x1, y1 |-> y1,
                json_area |-> json_area, mask_area |-> mask_area,
                ratio |-> Ratio(pixel_count, json_area)]
       ELSE [inst_id |-> inst_id, cat_id |-> ann.category_id,
             in_mask |-> FALSE, pixel_count |-> 0,
             x0 |-> 0, y0 |-> 0, x1 |-> 0, y1 |-> 0,
             json_area |-> 0, mask_area |-> 0, ratio |-> <<0, 1>>]

\* lines 70-106: one iteration of the loop
CompareAnnotation ==
    /\ vs_pc = "annotations"
    /\ vs_anns # <<>>
    /\ vs_out' = Append(vs_out, Compare(Head(vs_anns), instance_map))
    /\ vs_anns' = Tail(vs_anns)
    /\ UNCHANGED <<vs_pc, vs_coco, instance_map, unique_ids, otherThanVisualize>>

\* lines 108-116
SaveImage ==
    /\ vs_pc = "annotations"
    /\ vs_anns = <<>>
    /\ vs_pc' = "saved"
    /\ UNCHANGED <<vs_coco, vs_anns, vs_out, instance_map, unique_ids,
                   otherThanVisualize>>

NextVisualize ==
    \/ FindImage
    \/ ParseMask
    \/ CompareAnnotation
    \/ SaveImage

SpecVisualize == InitVisualize /\ [][NextVisualize]_vars

(***************************************************************************)
(* split_dataset.py: split_file, and verify_split.py: verify_split_files.  *)
(* A file is a sequence of bytes; a part name is the file path, a dot and  *)
(* the digits of the part number.                                          *)
(***************************************************************************)
Bytes == {0, 1}
Contents == UNION {[1..n -> Bytes] : n \in 0..MaxFileLen}
ZipFiles == {NoFile} \cup {[state |-> "ok", data |-> c] : c \in Contents}

RECURSIVE Digits(_)
Digits(n) == IF n < 10 THEN <<n>> ELSE Digits(n \div 10) \o <<n % 10>>

\* f"{n:03d}": the digits of n, padded with zeros to three at least
Pad3(n) ==
    IF Len(Digits(n)) >= 3 THEN Digits(n)
    ELSE [k \in 1..(3 - Len(Digits(n))) |-> 0] \o Digits(n)

\* split_dataset.py line 18 and verify_split.py line 8
PartName(base_name, n) == <<base_name, ".">> \o Pad3(n)

base_name == "strawberry_dataset.zip"

\* Chunks that leaves out a last chunk shorter than chunk_size
RECURSIVE Chunks_WholeOnly(_, _)
Chunks_WholeOnly(data, chunk_size) ==
    IF Len(data) < chunk_size THEN <<>>
    ELSE <<SubSeq(data, 1, chunk_size)>>
         \o Chunks_WholeOnly(SubSeq(data, chunk_size + 1, Len(data)), chunk_size)

\* split_dataset.py lines 13-16: f.read(chunk_size) until it returns b''
RECURSIVE Chunks(_, _)
Chunks(data, chunk_size) ==
    IF data = <<>> THEN <<>>
    ELSE IF Len(data) <= chunk_size THEN <<data>>
    ELSE <<SubSeq(data, 1, chunk_size)>>
         \o Chunks(SubSeq(data, chunk_size + 1, Len(data)), chunk_size)

\* split_dataset.py lines 18-23: chunk k is written to part k, over what
\* the part held
RECURSIVE WriteParts(_, _, _)
WriteParts(disk, chunks, part_num) ==
    IF chunks = <<>> THEN disk
    ELSE WriteParts((PartName(base_name, part_num) :> Head(chunks)) @@ disk,
                    Tail(chunks), part_num + 1)

\* verify_split.py lines 5-13: the parts i, i+1, ... that exist
RECURSIVE Discover(_, _)
Discover(disk, i) ==
    IF PartName(base_name, i) \in DOMAIN disk
    THEN <<PartName(base_name, i)>> \o Discover(disk, i + 1)
    ELSE <<>>

\* verify_split.py lines 24-28: the parts written one after the other
RECURSIVE Recombine(_, _)
Recombine(disk, names) ==
    IF names = <<>> THEN <<>>
    ELSE disk[Head(names)] \o Recombine(disk, Tail(names))

InitSplit ==
    /\ zip_file \in ZipFiles
    /\ parts = <<>>
    /\ written = <<>>
    /\ split_runs = 0
    /\ combined = NoFile
    /\ IdleCheck
    /\ IdlePairs
    /\ IdleMetadata
    /\ IdleVisualize
    /\ IdleBoxes
    /\ IdleAnalyze
    /\ IdleIntrinsics
    /\ IdleSetup
    /\ IdleOrder
    /\ IdleNotebook
    /\ IdleDepth

otherThanSplit ==
    <<checkVars, pairVars, fsVars, verifyVars, vizVars,
      boxVars, analyzeVars, intrinsicsVars, setupVars, orderVars,
      notebookVars, depthVars>>

\* split_dataset.py lines 3-25; combined is what was recombined since
SplitFile ==
    /\ split_runs < MaxSplits
    /\ \E chunk_size \in 1..MaxChunk :
         IF zip_file.state = "absent"
         THEN /\ written' = <<>>
              /\ UNCHANGED parts
         ELSE LET chunks == Chunks(zip_file.data, chunk_size) IN
              /\ parts' = WriteParts(parts, chunks, 1)
              /\ written' = [k \in 1..Len(chunks) |-> PartName(base_name, k)]
    /\ split_runs' = split_runs + 1
    /\ combined' = NoFile
    /\ UNCHANGED <<zip_file, otherThanSplit>>

\* another file takes the place of the file under the same name
ReplaceFile ==
    /\ split_runs \in 1..(MaxSplits - 1)
    /\ \E f \in ZipFiles : f # zip_file /\ zip_file' = f
    /\ UNCHANGED <<parts, written, split_runs, combined, otherThanSplit>>

\* verify_split.py lines 4-30
VerifySplitFiles ==
    /\ combined' =
         IF Discover(parts, 1) = <<>> THEN NoFile
         ELSE [state |-> "ok", data |-> Recombine(parts, Discover(parts, 1))]
    /\ UNCHANGED <<zip_file, parts, written, split_runs, otherThanSplit>>

NextSplit ==
    \/ SplitFile
    \/ ReplaceFile
    \/ VerifySplitFiles

SpecSplit == InitSplit /\ [][NextSplit]_vars

(***************************************************************************)
(* update_notebooks.py: update_notebook.  A source line is a sequence of   *)
(* tokens, white space and the line end being tokens of their own, so that *)
(* strip, rstrip, startswith and `in` are modelled by what they do.        *)
(***************************************************************************)
WhiteSpace == {"  ", " ", "\n"}

RECURSIVE Rstrip(_)
Rstrip(line) ==
    IF line # <<>> /\ line[Len(line)] \in WhiteSpace
    THEN Rstrip(SubSeq(line, 1, Len(line) - 1)) ELSE line

RECURSIVE Lstrip(_)
Lstrip(line) ==
    IF line # <<>> /\ Head(line) \in WhiteSpace THEN Lstrip(Tail(line)) ELSE line

StripLine(line) == Lstrip(Rstrip(line))

\* lines 245 and 279
StartsWithImport(l) == l # <<>> /\ l[1] \in {"import ", "from "}

\* lines 257-272
robust_import_lines ==
    << <<"import ", "os", "\n">>,
       <<"import ", "sys", "\n">>,
       <<"import ", "json", "\n">>,
       <<"import ", "requests", "\n">>,
       <<"import ", "zipfile", "\n">>,
       <<"import ", "shutil", "\n">>,
       <<"import ", "glob", "\n">>,
       <<"import ", "inspect", "\n">>,
       <<"import ", "torch", "\n">>,
       <<"import ", "numpy as np", "\n">>,
       <<"import ", "matplotlib.pyplot as plt", "\n">>,
       <<"from ", "PIL import Image", "\n">>,
       <<"from ", "tqdm.auto import tqdm", "\n">>,
       <<"from ", "pathlib import Path", "\n">> >>

\* ROBUST_SETUP_LOGIC.splitlines(keepends=True), lines 6-176: the first,
\* empty line, and the lines that name the repository and setup_dataset;
\* no line of it starts with import or from
SetupLogicLines ==
    << <<"\n">>,
       <<"# --- Robust Dataset Configuration ---", "\n">>,
       <<"BASE_URL = ", "strawberry_synthetic_dataset", "/releases", "\n">>,
       <<"def ", "setup_dataset", "():", "\n">>,
       <<"DATASET_PATH = ", "setup_dataset", "()", "\n">> >>

\* line 224
Mentions(source) ==
    \E k \in 1..Len(source) :
       \E t \in 1..Len(source[k]) :
          source[k][t] \in {"setup_dataset", "strawberry_synthetic_dataset"}

\* target_cell_idx that keeps the last matching cell (no break)
RECURSIVE target_cell_idx_Last(_, _)
target_cell_idx_Last(cells, idx) ==
    IF idx > Len(cells) THEN 0
    ELSE IF target_cell_idx_Last(cells, idx + 1) # 0
         THEN target_cell_idx_Last(cells, idx + 1)
    ELSE IF cells[idx].cell_type = "code" /\ Mentions(cells[idx].source)
         THEN idx
    ELSE 0

\* lines 220-226, from the cell idx on: the position of the first code cell
\* that mentions the dataset setup, 0 for the -1 of the code
RECURSIVE target_cell_idx(_, _)
target_cell_idx(cells, idx) ==
    IF idx > Len(cells) THEN 0
    ELSE IF cells[idx].cell_type = "code" /\ Mentions(cells[idx].source)
         THEN idx
    ELSE target_cell_idx(cells, idx + 1)

\* imports_to_preserve that does not record the lines it kept
RECURSIVE imports_to_preserve_NoDedup(_, _)
imports_to_preserve_NoDedup(original_source, present_import_signatures) ==
    IF original_source = <<>> THEN <<>>
    ELSE LET line == Head(original_source)
             l == StripLine(line)
         IN IF StartsWithImport(l) /\ l \notin present_import_signatures
            THEN <<Rstrip(line) \o <<"\n">> >>
                 \o imports_to_preserve_NoDedup(Tail(original_source),
                                                present_import_signatures)
            ELSE imports_to_preserve_NoDedup(Tail(original_source),
                                             present_import_signatures)

\* lines 277-281
RECURSIVE imports_to_preserve(_, _)
imports_to_preserve(original_source, present_import_signatures) ==
    IF original_source = <<>> THEN <<>>
    ELSE LET line == Head(original_source)
             l == StripLine(line)
         IN IF StartsWithImport(l) /\ l \notin present_import_signatures
            THEN <<Rstrip(line) \o <<"\n">> >>
                 \o imports_to_preserve(Tail(original_source),
                                        present_import_signatures \cup {l})
            ELSE imports_to_preserve(Tail(original_source),
                                     present_import_signatures)

\* RobustSignatures that starts from the empty set
RobustSignatures_Empty == {}

\* line 275
RobustSignatures == {StripLine(robust_import_lines[k]) : k \in 1..Len(robust_import_lines)}

\* line 284
final_source_lines(original_source) ==
    robust_import_lines
    \o imports_to_preserve(original_source, RobustSignatures)
    \o << <<"\n">> >>
    \o SetupLogicLines

\* the lines the cells of a notebook are made of
LineCatalogue ==
    << <<"import ", "os", "\n">>,
       <<"import ", "cv2", "\n">>,
       <<"  ", "import ", "cv2", " ", "\n">>,
       <<"DATASET_ROOT = ", "setup_dataset", "()", "\n">>,
       <<"print(DATASET_ROOT)", "\n">>,
       <<"from ", "utils import ", "setup_dataset", "\n">>,
       <<"from ", "ultralytics import YOLO">> >>

Sources == {SeqFilter(LineCatalogue, S) : S \in SUBSET Range(LineCatalogue)}

Cell(type, source, count) ==
    [cell_type |-> type, source |-> source, execution_count |-> count]

\* the cell under study among a markdown cell that mentions setup_dataset,
\* a code cell that does not, and a later code cell that does
CellsAround(src) ==
    << Cell("markdown", <<LineCatalogue[4]>>, 0),
       Cell("code", <<LineCatalogue[2], LineCatalogue[5]>>, 1),
       Cell("code", src, 2),
       Cell("code", <<LineCatalogue[4]>>, 3) >>

Notebooks ==
    UNION {{SeqFilter(CellsAround(src), S) : S \in SUBSET Range(CellsAround(src))} :
             src \in Sources}

\* the file as written by someone else, and as json.dump(indent=1) writes it
NotebookFiles ==
    { [state |-> "absent", data |-> <<>>, format |-> "none"],
      [state |-> "unparsable", data |-> <<>>, format |-> "other"] }
    \cup {[state |-> "ok", data |-> nb, format |-> "other"] : nb \in Notebooks}

InitNotebook ==
    /\ nb_file \in NotebookFiles
    /\ nb_prev = nb_file
    /\ nb_runs = 0
    /\ nb_written = FALSE
    /\ IdleCheck
    /\ IdlePairs
    /\ IdleMetadata
    /\ IdleVisualize
    /\ IdleBoxes
    /\ IdleAnalyze
    /\ IdleIntrinsics
    /\ IdleSetup
    /\ IdleOrder
    /\ IdleSplit
    /\ IdleDepth

\* lines 210-292; json.load raises on a file that is not JSON
UpdateNotebook ==
    /\ nb_runs < MaxUpdates
    /\ nb_runs' = nb_runs + 1
    /\ nb_prev' = nb_file
    /\ IF nb_file.state # "ok" \/ target_cell_idx(nb_file.data, 1) = 0
       THEN /\ nb_written' = FALSE
            /\ UNCHANGED nb_file
       ELSE LET idx == target_cell_idx(nb_file.data, 1)
                original_source == nb_file.data[idx].source
            IN /\ nb_file' =
                    [state |-> "ok",
                     data |-> [nb_file.data EXCEPT
                                 ![idx].source = final_source_lines(original_source)],
                     format |-> "indent=1"]
               /\ nb_written' = TRUE
    /\ UNCHANGED <<checkVars, pairVars, fsVars, verifyVars, vizVars,
                   boxVars, analyzeVars, intrinsicsVars, setupVars, orderVars,
                   splitVars, depthVars>>

NextNotebook == UpdateNotebook

SpecNotebook == InitNotebook /\ [][NextNotebook]_vars

(***************************************************************************)
(* load_depth_png: depth_utils.py, dataset_overview.py and                 *)
(* test_dataset_functions.py each hold a copy.  One pixel of the array     *)
(* np.array(img) is the sequence of its channels.                          *)
(***************************************************************************)
\* the largest value of a channel of an 8-bit image
ChannelMax == 255

\* astype(np.uint16): the values of the type are 0..Uint16 - 1
Uint16 == 65536

\* the pixels of a depth PNG: R and G of an 8-bit image, or the one channel
\* of a 16-bit greyscale image
DepthPixels ==
    ((0..ChannelMax) \X (0..ChannelMax)) \cup {<<v>> : v \in 0..(Uint16 - 1)}

\* << 8 on the element type of the image, without astype(np.uint16)
ShiftLeft8_Uint8(v) == (v * 256) % (ChannelMax + 1)

\* << 8 on a uint16
ShiftLeft8(v) == (v * 256) % Uint16

\* | on two unsigned integers
RECURSIVE BitOr(_, _)
BitOr(a, b) ==
    IF a = 0 THEN b
    ELSE IF b = 0 THEN a
    ELSE (IF a % 2 = 1 \/ b % 2 = 1 THEN 1 ELSE 0) + 2 * BitOr(a \div 2, b \div 2)

\* depth_utils.py lines 23-31: depth_mm of one pixel
load_depth_png_utils(px) ==
    IF Len(px) >= 2
    THEN LET high == px[1] % Uint16
             low == px[2] % Uint16
         IN BitOr(ShiftLeft8(high), low)
    ELSE px[1]

\* dataset_overview.py lines 401-409: depth_mm of one pixel
load_depth_png_overview(px) ==
    IF Len(px) >= 2
    THEN LET high == px[1] % Uint16
             low == px[2] % Uint16
         IN BitOr(ShiftLeft8(high), low)
    ELSE px[1]

\* test_dataset_functions.py lines 80-87: depth_mm of one pixel
load_depth_png_functions(px) ==
    IF Len(px) >= 2
    THEN LET high == px[1] % Uint16
             low == px[2] % Uint16
         IN BitOr(ShiftLeft8(high), low)
    ELSE px[1]

InitDepth ==
    /\ dp_pc = "load"
    /\ depth_px \in DepthPixels
    /\ depth_out = <<>>
    /\ IdleCheck
    /\ IdlePairs
    /\ IdleMetadata
    /\ IdleVisualize
    /\ IdleBoxes
    /\ IdleAnalyze
    /\ IdleIntrinsics
    /\ IdleSetup
    /\ IdleOrder
    /\ IdleSplit
    /\ IdleNotebook

\* the three copies on the same pixel
LoadDepthPng ==
    /\ dp_pc = "load"
    /\ depth_out' = << load_depth_png_utils(depth_px),
                       load_depth_png_overview(depth_px),
                       load_depth_png_functions(depth_px) >>
    /\ dp_pc' = "done"
    /\ UNCHANGED <<depth_px, checkVars, pairVars, fsVars, verifyVars, vizVars,
                   boxVars, analyzeVars, intrinsicsVars, setupVars, orderVars,
                   splitVars, notebookVars>>

NextDepth == LoadDepthPng

SpecDepth == InitDepth /\ [][NextDepth]_vars

(***************************************************************************)
(* Properties of comprehensive_check.verify_dataset.                       *)
(***************************************************************************)
MaskColors(m) == UNION {Range(m[i]) : i \in 1..Len(m)}
\* the colours of the mask the scan decodes
DecodedColors(m) == {c \in MaskColors(m) : c # Background /\ c[1] \in 0..3}
CategoryName(b) ==
    CASE b = 0 -> "ripe" [] b = 1 -> "unripe" [] b = 2 -> "half_ripe"
      [] b = 3 -> "peduncle"
\* the object key encoding A gives a colour
KeyOfColor(c) == <<CategoryName(c[1]), IF c[1] = 3 THEN c[2] ELSE c[3]>>
KeysOfMask(m) == {KeyOfColor(c) : c \in DecodedColors(m)}
PixelsOf(m, colours) ==
    {<<i, j>> \in (1..Height(m)) \X (1..Width(m)) : m[i][j] \in colours}
\* the annotations of the sample image
SampleAnns == {a \in Range(coco) : a.image_id = sample_id}

PastV1 == {"v2", "v3", "v4", "v5", "summary", "done", "raised"}
PastV3 == {"v4", "v5", "summary", "done", "raised"}
PastV4 == {"v5", "summary", "done", "raised"}

\* C1 as stated: the Bijection check passes iff the number of distinct
\* non-background colours present in the mask equals the number of distinct
\* decoded object keys.
C1_BijectionOverAllColors ==
    /\ pc \in PastV1 =>
         (report.bijection_confirmed <=>
            Cardinality(MaskColors(mask) \ {Background})
              = Cardinality(KeysOfMask(mask)))
    /\ pc = "done" =>
         (report.checks.Bijection <=>
            Cardinality(MaskColors(mask) \ {Background})
              = Cardinality(KeysOfMask(mask)))

\* C1 amended: the Bijection check (the verdict printed after the scan and
\* the entry of the final summary) passes iff the number of distinct
\* non-background colours with B in {0,1,2,3} equals the number of distinct
\* object keys they decode to; two colours of one key make it fail.
C1_BijectionOverDecodedColors ==
    /\ pc \in PastV1 =>
         (report.bijection_confirmed <=>
            Cardinality(DecodedColors(mask)) = Cardinality(KeysOfMask(mask)))
    /\ pc = "done" =>
         (report.checks.Bijection <=>
            Cardinality(DecodedColors(mask)) = Cardinality(KeysOfMask(mask)))

C1_Witness ==
    /\ pc = "done"
    /\ {<<0, 0, 1>>, <<0, 1, 1>>} \subseteq MaskColors(mask)
    /\ ~report.checks.Bijection

\* C3: whenever the scan decodes an object key with instance id 0 the
\* ID Offset check fails, and it passes only when every decoded id is >= 1.
C3_IdOffset ==
    LET ids == {k[2] : k \in KeysOfMask(mask)} IN
    /\ pc \in {"summary", "done"} /\ 0 \in ids =>
         report.has_zero /\ report.min_id = 0
    /\ pc = "done" => (report.checks.IDOffset <=> \A i \in ids : i >= 1)

C3_Witness ==
    /\ pc = "done"
    /\ <<1, 0, 0>> \in MaskColors(mask)
    /\ <<0, 0, 1>> \in MaskColors(mask)
    /\ ~report.checks.IDOffset

\* C4: the Threshold Applied check passes when every annotation of the
\* sample image has area >= 15, and fails with one violation entry
\* (instance_id, category_id, area) per annotation smaller than 15 px.
C4_ThresholdApplied ==
    LET small == SeqFilter(coco, {a \in SampleAnns : a.area < PixelThreshold}) IN
    /\ pc \in PastV4 =>
         report.violations =
            [k \in 1..Len(small) |->
                <<small[k].instance_id, small[k].category_id, small[k].area>>]
    /\ pc = "done" =>
         (report.checks.ThresholdApplied <=>
            \A a \in SampleAnns : a.area >= PixelThreshold)

C4_Witness ==
    /\ pc = "done"
    /\ \E a \in SampleAnns : a.area >= PixelThreshold
    /\ \E a \in SampleAnns : a.area < PixelThreshold
    /\ ~report.checks.ThresholdApplied
    /\ Len(report.violations) > 0

\* C5: an object key counts as rightly annotated iff its scanned pixel count
\* is >= 15; a key with fewer than 15 pixels that is annotated, or one with
\* >= 15 pixels that is not, is a threshold failure, and every object listed
\* as filtered has fewer than 15 pixels.
C5_ThresholdOnPixelCounts ==
    LET annotated == {<<CategoryName(a.category_id), a.instance_id>> : a \in SampleAnns}
        px == acc.object_pixels
    IN  pc \in PastV4 =>
          /\ (\E k \in DOMAIN px : (px[k] >= PixelThreshold) # (k \in annotated))
                => Len(report.violations) > 0
          /\ \A k \in 1..Len(report.missing) : report.missing[k][3] < PixelThreshold

\* C7: a strawberry annotation is paired exactly when its nonzero parent_id
\* is the instance_id of a peduncle annotation of the image, the peduncles
\* counted as peduncle only are those no strawberry refers to, and the
\* paired count equals the number of pairs find_matching_pairs returns.
C7_PairingByParentId ==
    LET straw == {a \in SampleAnns : a.category_id \in {0, 1, 2}}
        ped == {a \in SampleAnns : a.category_id = 3}
        paired == {s \in straw : s.parent_id # 0
                                  /\ \E p \in ped : p.instance_id = s.parent_id}
    IN  pc \in PastV3 =>
          /\ report.paired_count = Cardinality(paired)
          /\ report.strawberry_only = Cardinality(straw \ paired)
          /\ report.peduncle_only =
               Cardinality({p \in ped : \A s \in straw : s.parent_id # p.instance_id})
          /\ report.paired_count = Len(find_matching_pairs(coco, sample_id))

\* the pixels of the mask with a category outside {0,1,2,3}, as (x, y)
InvalidPixels(m) ==
    {<<j - 1, i - 1>> : <<i, j>> \in
        {q \in (1..Height(m)) \X (1..Width(m)) : m[q[1]][q[2]][1] \notin 0..3}}

\* C11: a pixel whose B channel is outside {0,1,2,3} is reported with its
\* coordinates and B value, adds nothing to the colour map or to a pixel
\* count, and does not stop the scan: every later pixel is visited and decoded.
C11_InvalidCategoryContinues ==
    pc \in PastV1 =>
      /\ acc.visited = Height(mask) * Width(mask)
      /\ Len(acc.faults) = Cardinality(InvalidPixels(mask))
      /\ \A k \in 1..Len(acc.faults) :
            /\ <<acc.faults[k][1], acc.faults[k][2]>> \in InvalidPixels(mask)
            /\ acc.faults[k][3]
                 = mask[acc.faults[k][2] + 1][acc.faults[k][1] + 1][1]
            /\ \A n \in 1..(k - 1) :
                  \/ acc.faults[n][2] < acc.faults[k][2]
                  \/ /\ acc.faults[n][2] = acc.faults[k][2]
                     /\ acc.faults[n][1] < acc.faults[k][1]
      /\ DOMAIN acc.color_map = DecodedColors(mask)
      /\ \A k \in KeysOfMask(mask) :
            /\ k \in DOMAIN acc.object_pixels
            /\ acc.object_pixels[k] =
                 Cardinality(PixelsOf(mask, {c \in DecodedColors(mask) : KeyOfColor(c) = k}))

C11_Witness ==
    /\ pc \in PastV1
    /\ mask[1][1] = <<4, 0, 0>>
    /\ mask[1][2] = <<0, 0, 1>>
    /\ Len(acc.faults) = 1
    /\ <<"ripe", 1>> \in DOMAIN acc.object_pixels

\* C12: a mask with at least one pixel of invalid category is reflected in
\* the final summary and is not reported as ALL CHECKS PASSED.
C12_FaultsInFinalSummary ==
    pc = "done" /\ InvalidPixels(mask) # {} => ~report.all_passed

\* C13: verify_dataset never raises: for every mask and annotation list the
\* five verifications run to completion and the final summary is reached.
C13_NeverRaises == pc # "raised"

\* C14: ALL CHECKS PASSED is printed only if the sample has no bijection
\* break, no threshold violation, no id-offset violation, no channel
\* separation violation and no pairing mismatch (a strawberry without its
\* peduncle or a peduncle no strawberry refers to).
C14_AllPassedMeansNoViolation ==
    LET straw == {a \in SampleAnns : a.category_id \in {0, 1, 2}}
        ped == {a \in SampleAnns : a.category_id = 3}
    IN  pc = "done" /\ report.all_passed =>
          /\ Cardinality(DecodedColors(mask)) = Cardinality(KeysOfMask(mask))
          /\ \A a \in SampleAnns : a.area >= PixelThreshold
          /\ \A k \in KeysOfMask(mask) : k[2] >= 1
          /\ \A c \in DecodedColors(mask) :
                IF c[1] = 3 THEN c[3] = 0 ELSE c[2] = 0
          /\ \A s \in straw : \E p \in ped : p.instance_id = s.parent_id
          /\ \A p \in ped : \E s \in straw : s.parent_id = p.instance_id

\* C15: the Channel Separation check fails iff some colour decoded as a
\* strawberry has G > 0 or some colour decoded as a peduncle has R > 0; with
\* no decoded strawberry colour and no decoded peduncle colour it passes.
C15_ChannelSeparation ==
    pc \in {"done", "raised"} =>
      ((pc = "done" /\ report.checks.ChannelSeparation)
         <=> \A c \in DecodedColors(mask) :
                IF c[1] = 3 THEN c[3] = 0 ELSE c[2] = 0)

(***************************************************************************)
(* Properties of both decoders on one mask.                                *)
(***************************************************************************)
\* C2: a pixel whose three channels are 0 is background under both decoders:
\* it is in no colour map, adds to no object's pixel count, and its value in
\* the instance map is not among the instance ids found in the mask.
C2_BackgroundReserved ==
    /\ Background \notin DOMAIN acc.color_map
    /\ pc \in PastV1 =>
         /\ DOMAIN acc.object_pixels = KeysOfMask(mask)
         /\ \A k \in DOMAIN acc.object_pixels :
               acc.object_pixels[k] =
                  Cardinality(PixelsOf(mask, {c \in DecodedColors(mask) : KeyOfColor(c) = k}))
    /\ vs_pc = "annotations" =>
         \A p \in PixelsOf(mask, {Background}) :
               instance_map[p[1]][p[2]] \notin unique_ids

C2_Witness ==
    /\ pc = "done"
    /\ vs_pc = "annotations"
    /\ PixelsOf(mask, {Background}) # {}
    /\ unique_ids # {}
    /\ DOMAIN acc.object_pixels # {}

(***************************************************************************)
(* Properties of find_matching_pairs.                                      *)
(***************************************************************************)
\* C6: find_matching_pairs returns one pair (s, p) for exactly the strawberry
\* annotations s of the image whose parent_id is the instance_id of a
\* peduncle annotation p of the same image; peduncles of other images never
\* pair.
C6_MatchingPairs ==
    LET of_image == {a \in Range(annotations) : a.image_id = image_id}
        ped == {a \in of_image : a.category_id = 3}
        matched == {s \in of_image : /\ s.category_id \in {0, 1, 2}
                                     /\ \E p \in ped : p.instance_id = s.parent_id}
    IN  fp_pc = "returned" =>
          /\ [k \in 1..Len(pairs) |-> pairs[k][1]] = SeqFilter(annotations, matched)
          /\ \A k \in 1..Len(pairs) :
                /\ pairs[k][2] \in ped
                /\ pairs[k][2].instance_id = pairs[k][1].parent_id

C6_Witness ==
    /\ fp_pc = "returned"
    /\ Len(pairs) = 1
    /\ pairs[1][1].parent_id = 7
    /\ pairs[1][2].instance_id = 7
    /\ \E a \in Range(annotations) : a.image_id # image_id /\ a.category_id = 3

(***************************************************************************)
(* Properties of the metadata scripts.                                     *)
(***************************************************************************)
\* the shard files reconstruct_metadata read were all readable, none was
\* left out of the master mapping, and annotations.json lists as many images
ReadableRoundTrip ==
    /\ rebuilt
    /\ \A n \in DOMAIN metadata_temp : metadata_temp[n].ok
    /\ Cardinality(DOMAIN master.data)
         = Cardinality(DOMAIN metadata_temp) + Cardinality(deleted)
    /\ ann_file.state = "ok"
    /\ ann_file.data = Cardinality(DOMAIN master.data)

\* C8: after reconstruct_metadata built depth_metadata.json from N readable
\* shards and annotations.json lists N images, a run of verify_dataset
\* collects no error; once one shard file is deleted, the next run collects
\* exactly one error, naming the missing shard file.
C8_ShardRoundTrip ==
    v_pc = "returned" /\ ReadableRoundTrip =>
        /\ deleted = {} => errors = <<>>
        /\ Cardinality(deleted) = 1 =>
              /\ Len(errors) = 1
              /\ errors[1][1] = "MissingShard"
              /\ errors[1][3] \in deleted

C8_Witness ==
    /\ v_pc = "returned"
    /\ ReadableRoundTrip
    /\ Cardinality(deleted) = 1
    /\ Cardinality(DOMAIN metadata_temp) = 1
    /\ Len(errors) = 1

\* C9: verify_dataset never stops at the first error: in every state of the
\* dataset directory every check is run and every mismatch that exists is in
\* the collected errors.
C9_NeverStopsAtFirstError ==
    /\ v_pc # "raised"
    /\ v_pc = "returned" =>
         /\ master.state = "absent" => <<"MasterNotFound">> \in Range(errors)
         /\ master.state = "unparsable" => <<"MasterParse">> \in Range(errors)
         /\ ann_file.state = "absent" => <<"AnnotationsNotFound">> \in Range(errors)
         /\ ann_file.state = "unparsable" => <<"AnnotationsParse">> \in Range(errors)
         /\ master.state = "ok" =>
              \A i \in ImageIds :
                 ImageName(i) \in DOMAIN master.data
                   /\ ShardName(i) \notin DOMAIN metadata_temp
                 => \E k \in 1..Len(errors) :
                       errors[k][1] = "MissingShard" /\ errors[k][2] = ImageName(i)

\* C10: for every shard whose image is in the master mapping a data mismatch
\* is reported whenever the minimum or the maximum depth differs from the
\* master entry by more than the tolerance, and none when both are within it.
C10_MinAndMaxDepthCompared ==
    v_pc = "returned" /\ master.state = "ok" =>
        \A i \in ImageIds :
            ShardName(i) \in DOMAIN metadata_temp
              /\ metadata_temp[ShardName(i)].ok
              /\ ImageName(i) \in DOMAIN master.data
            => LET t == metadata_temp[ShardName(i)]
                   m == master.data[ImageName(i)]
               IN  (\/ Abs(t.min_meters - m.min_meters) > Tolerance
                    \/ Abs(t.max_meters - m.max_meters) > Tolerance)
                   <=> \E k \in 1..Len(errors) :
                          errors[k][1] = "DataMismatch" /\ errors[k][2] = ImageName(i)

(***************************************************************************)
(* Properties of analyze_current_dataset.test_current_dataset.             *)
(***************************************************************************)
\* C16: when the images folder holds at least one PNG and annotations.json
\* fails to parse or does not exist, the error is reported and the script
\* still completes: it prints its SUMMARY section and does not raise.
C16_MalformedAnnotationsNonFatal ==
    (/\ a_pc \in {"done", "raised"}
     /\ dataset.pngs # <<>>
     /\ dataset.annotations.state # "ok")
    => /\ a_pc = "done"
       /\ "SUMMARY" \in Range(a_out)
       /\ "SafeToRun" \in Range(a_out)
       /\ \/ "JSONParseError" \in Range(a_out)
          \/ "AnnotationsNotFound" \in Range(a_out)

(***************************************************************************)
(* Properties of the callers of load_depth_metadata.                       *)
(***************************************************************************)
\* C17: whenever depth_metadata.json is absent or is not valid JSON,
\* load_depth_metadata returns an empty mapping, and every caller that
\* builds the camera matrix (the module-level cell of dataset_overview and
\* Test 9 of both run_tests) obtains the default 3x3 matrix and records no
\* failure.
C17_DefaultIntrinsicsFallback ==
    (i_pc \in {"use", "done", "raised"} /\ depth_file.state # "ok")
    => /\ load_depth_metadata(depth_file) = <<>>
       /\ i_pc # "raised"
       /\ K = Matrix(DefaultK)
       /\ test_errors = <<>>

(***************************************************************************)
(* Properties of setup_local_env.                                          *)
(***************************************************************************)
StepOrder == <<"venv", "pip", "requirements", "jupyter", "kernel">>
\* the steps executed so far, and their names
StepsRun == SeqFilter(trace, {e \in Range(trace) : e[1] # "return"})
StepNames == [k \in 1..Len(StepsRun) |-> StepsRun[k][1]]
ReturnedTrue == <<"return", "True">> \in Range(trace)

\* C18: the steps run in the order venv creation (only when the venv
\* directory is absent), pip upgrade, requirements check and install,
\* Jupyter install, kernel creation; the first failure before kernel
\* creation (a missing requirements file included) is the last step run and
\* gives exit code 1; a failure of kernel creation alone does not fail the
\* run; the exit code is 0 exactly when main returns True.
C18_StepOrderAndExitCode ==
    s_pc # "idle" =>
    /\ \/ StepNames = SubSeq(StepOrder, 1, Len(StepNames))
       \/ StepNames = SubSeq(StepOrder, 2, Len(StepNames) + 1)
    /\ "venv" \in Range(StepNames) =>
         (~host.venv_existed \/ Lower(host.response) = "y")
    /\ (s_pc \notin {"start", "venv"} /\ exit_code # 1
          /\ (~host.venv_existed \/ Lower(host.response) = "y")) =>
         (StepNames # <<>> /\ StepNames[1] = "venv")
    /\ \A k \in 1..Len(StepsRun) :
         (StepsRun[k][2] # "ok" /\ StepsRun[k][1] # "kernel") =>
            /\ k = Len(StepsRun)
            /\ ~ReturnedTrue
            /\ s_pc \in {"returned", "exited"}
            /\ s_pc = "exited" => exit_code = 1
    /\ (s_pc = "exited" /\ "kernel" \in Range(StepNames)) => exit_code = 0
    /\ s_pc = "exited" => (exit_code = 0 <=> ReturnedTrue)
    /\ s_pc = "exited" => exit_code \in {0, 1}
    /\ s_pc # "exited" => exit_code = -1

\* the venv is recreated on the answer "Y", kernel creation fails and the
\* run still exits with 0
C18_Witness ==
    /\ s_pc = "exited"
    /\ exit_code = 0
    /\ host.venv_existed
    /\ StepNames = StepOrder
    /\ StepsRun[5] = <<"kernel", "failed">>

(***************************************************************************)
(* Properties of the scan order.                                           *)
(***************************************************************************)
BothVisitsDone == pc = "scan" /\ y = Height(mask) /\ o_pc = "visited"

\* C19: the colour -> object key map and the object key -> pixel count map
\* of the scan do not depend on the order the pixels are visited in: a visit
\* in any order gives the two maps of the row-by-row scan, and so the same
\* verdicts of the checks computed from them.
C19_ScanOrderIndependent ==
    BothVisitsDone =>
      /\ DOMAIN o_acc.color_map = DOMAIN acc.color_map
      /\ \A c \in DOMAIN acc.color_map : o_acc.color_map[c] = acc.color_map[c]
      /\ DOMAIN o_acc.object_pixels = DOMAIN acc.object_pixels
      /\ \A k \in DOMAIN acc.object_pixels :
            o_acc.object_pixels[k] = acc.object_pixels[k]
      /\ Cardinality(DOMAIN o_acc.color_map) = Cardinality(DOMAIN o_acc.object_pixels)
           <=> Cardinality(DOMAIN acc.color_map) = Cardinality(DOMAIN acc.object_pixels)
      /\ StrawberryColors(o_acc.color_map) = StrawberryColors(acc.color_map)
      /\ PeduncleColors(o_acc.color_map) = PeduncleColors(acc.color_map)
      /\ AllIds(o_acc.object_pixels) = AllIds(acc.object_pixels)

\* an object of two colours and a second object, met in another order than
\* the one of the rows
C19_Witness ==
    /\ BothVisitsDone
    /\ o_acc.object_order # acc.object_order
    /\ Cardinality(DOMAIN acc.color_map) > Cardinality(DOMAIN acc.object_pixels)
    /\ \E k \in DOMAIN acc.object_pixels : acc.object_pixels[k] >= 3

(***************************************************************************)
(* Properties of the loop of visualize_sample.                             *)
(***************************************************************************)
\* C20: for each annotation whose instance id occurs in the mask, the
\* rectangle [x0..x1] x [y0..y1] is the smallest one enclosing the pixels of
\* that instance id, and the ratio reported compares the area of this
\* rectangle, (x1-x0+1)*(y1-y0+1), with the JSON bbox area w*h.
C20_RatioOfBoundingBoxes ==
    \A k \in 1..Len(vs_out) :
       LET row == vs_out[k]
           pixels == MaskBool(InstanceMap(mask), row.inst_id)
       IN row.in_mask =>
            /\ pixels # {}
            /\ \A q \in pixels : q[1] \in row.y0..row.y1 /\ q[2] \in row.x0..row.x1
            /\ \E q \in pixels : q[1] = row.y0
            /\ \E q \in pixels : q[1] = row.y1
            /\ \E q \in pixels : q[2] = row.x0
            /\ \E q \in pixels : q[2] = row.x1
            /\ row.json_area > 0 =>
                 row.ratio[1] * row.json_area
                   = (row.x1 - row.x0 + 1) * (row.y1 - row.y0 + 1) * row.ratio[2]

(***************************************************************************)
(* Properties of split_file and verify_split_files.                        *)
(***************************************************************************)
\* the properties of the parts a run of split_file on the bytes data with
\* chunk_size leaves: names, the names written; disk, the part files after
PartsOf(data, names, disk) ==
    /\ \A k \in 1..Len(names) :
         /\ names[k] = PartName(base_name, k)
         /\ names[k] \in DOMAIN disk
         /\ disk[names[k]] # <<>>
    /\ data = <<>> <=> names = <<>>
    /\ \A k \in 1..(Len(names) - 1) : Len(disk[names[k]]) = Len(disk[names[1]])
    /\ names # <<>> => Len(disk[names[Len(names)]]) <= Len(disk[names[1]])
    /\ Recombine(disk, names) = data

C22_OnlyLatestParts ==
    (split_runs >= 1 /\ combined.state = "ok") =>
       /\ Discover(parts, 1) = written
       /\ combined.data = Recombine(parts, written)

(***************************************************************************)
(* Properties of update_notebook.                                          *)
(***************************************************************************)
\* the code cells of a notebook whose text mentions the dataset setup
SetupCells(cells) ==
    {k \in 1..Len(cells) : cells[k].cell_type = "code" /\ Mentions(cells[k].source)}
\* the latest run found a notebook and a setup cell in it
Updated == nb_runs >= 1 /\ nb_prev.state = "ok" /\ SetupCells(nb_prev.data) # {}
TargetIdx == SetMin(SetupCells(nb_prev.data))
LogicStart(source) == Len(source) - Len(SetupLogicLines) + 1
\* the lines of the replaced cell that start with import or from and are
\* not a robust import line
ExtraImports(source) ==
    {k \in 1..Len(source) :
        /\ source[k][1] \in {"import ", "from "}
        /\ \A r \in 1..Len(robust_import_lines) :
              StripLine(source[k]) # StripLine(robust_import_lines[r])}
PlacesOf(line, source) ==
    {k \in 1..Len(source) : StripLine(source[k]) = StripLine(line)}

\* C23: update_notebook applied twice gives the cells it gives applied
\* once: the second run selects the same cell, keeps the same preserved
\* imports without duplicating them, and writes the same source lines.
C23_Idempotent ==
    /\ Updated => target_cell_idx(nb_file.data, 1) = TargetIdx
    /\ nb_runs = 2 =>
         /\ nb_file.data = nb_prev.data
         /\ nb_file.state = nb_prev.state

\* the second run on a cell that kept two extra imports
C23_Witness ==
    /\ nb_runs = 2
    /\ nb_written
    /\ Len(nb_file.data[TargetIdx].source)
         = Len(robust_import_lines) + 2 + 1 + Len(SetupLogicLines)

\* C24: update_notebook changes only the source of the first code cell
\* whose text contains 'setup_dataset' or 'strawberry_synthetic_dataset':
\* every other cell, the cell order and the number of cells are unchanged;
\* when the file does not exist or has no such cell it is not written.
C24_OnlySetupCellChanges ==
    nb_runs >= 1 =>
       IF Updated
       THEN /\ nb_written
            /\ nb_file.state = "ok"
            /\ Len(nb_file.data) = Len(nb_prev.data)
            /\ \A k \in 1..Len(nb_prev.data) :
                 IF k = TargetIdx
                 THEN /\ nb_file.data[k].cell_type = nb_prev.data[k].cell_type
                      /\ nb_file.data[k].execution_count
                           = nb_prev.data[k].execution_count
                      /\ nb_file.data[k].source
                           = final_source_lines(nb_prev.data[k].source)
                 ELSE nb_file.data[k] = nb_prev.data[k]
       ELSE /\ ~nb_written
            /\ nb_file = nb_prev

\* a markdown cell that mentions setup_dataset and a plain code cell come
\* first and stay, the third cell is rewritten, a later setup cell stays
C24_Witness ==
    /\ nb_runs = 1
    /\ nb_written
    /\ Len(nb_file.data) = 4
    /\ TargetIdx = 3
    /\ nb_file.data[3] # nb_prev.data[3]
    /\ nb_file.data[4] = nb_prev.data[4]

ReadableShards ==
    {n \in DOMAIN metadata_temp : n[Len(n)] = "_meta.json" /\ metadata_temp[n].ok}

\* C26: reconstruct_metadata returns False and writes nothing when
\* metadata_temp is absent or no shard parses; otherwise it skips the
\* unreadable shards, writes exactly one entry '<id>.png' per readable
\* shard '<id>_meta.json' with the content of that shard, and returns True;
\* validate_root calls it only when depth_metadata.json does not exist, so
\* an existing master file is never overwritten.
C26_ReconstructOnlyFromShards ==
    [][(v_pc = "idle" /\ v_pc' = "idle") =>
         /\ master.state # "absent" => master' = master
         /\ (~temp_exists \/ ReadableShards = {}) =>
              /\ ~reconstruct_metadata(temp_exists, metadata_temp).returned
              /\ master' = master
         /\ (temp_exists /\ ReadableShards # {}) =>
              reconstruct_metadata(temp_exists, metadata_temp).returned
         /\ (master.state = "absent" /\ temp_exists /\ ReadableShards # {}) =>
              /\ master'.state = "ok"
              /\ DOMAIN master'.data = {<<n[1], ".png">> : n \in ReadableShards}
              /\ \A n \in ReadableShards :
                    master'.data[<<n[1], ".png">>] = metadata_temp[n]]_vars

\* a master file rebuilt from one readable shard beside an unreadable one
C26_Witness ==
    /\ rebuilt
    /\ deleted = {}
    /\ Cardinality(DOMAIN metadata_temp) = 2
    /\ Cardinality(ReadableShards) = 1
    /\ master.state = "ok"
    /\ Cardinality(DOMAIN master.data) = 1

(***************************************************************************)
(* Properties of the index report of test_current_dataset.                 *)
(***************************************************************************)
NumericStems == {IntOfStem[s] : s \in Range(dataset.pngs) \cap DOMAIN IntOfStem}

\* C27: when the images folder holds at least one PNG, the reported max
\* index is the largest numeric stem, the reported gaps are the integers of
\* 0..max index that are no numeric stem, 'No gaps' is printed exactly when
\* there is none, and the number of images remaining to generate is never
\* negative.
C27_IndexReport ==
    (a_pc \in {"done", "raised"} /\ dataset.images_exists /\ dataset.pngs # <<>>) =>
        /\ NumericStems # {} => a_env.max_index = SetMax(NumericStems)
        /\ a_env.gaps = (0..a_env.max_index) \ NumericStems
        /\ (\E k \in DOMAIN a_out : a_out[k] = "NoGaps") <=> a_env.gaps = {}
        /\ a_env.remaining >= 0

(***************************************************************************)
(* Agreement of the two decoders on instance ids.                          *)
(***************************************************************************)
\* the ids comprehensive_check decoded, and the R values of the pixels it
\* rejected for their category
CheckedIds == {acc.color_map[c][2] : c \in DOMAIN acc.color_map}
RejectedReds == {c[3] : c \in {c \in MaskColors(mask) : c[1] \notin 0..3}}

\* C28: for every pixel that is not (0,0,0) and whose B channel is in
\* {0,1,2,3}, the id decoded by comprehensive_check equals the value of the
\* instance map of visualize_sample; the ids of the two scripts differ only by
\* id 0 and by the pixels with B outside {0,1,2,3}.
C28_DecodersAgree ==
    (pc \in PastV1 /\ vs_pc = "annotations") =>
        /\ \A i \in 1..Height(mask), j \in 1..Width(mask) :
              (mask[i][j] # Background /\ mask[i][j][1] \in 0..3) =>
                  /\ mask[i][j] \in DOMAIN acc.color_map
                  /\ acc.color_map[mask[i][j]][2] = instance_map[i][j]
        /\ CheckedIds \ {0} \subseteq unique_ids
        /\ unique_ids \ CheckedIds \subseteq RejectedReds

\* a mask with a strawberry and a peduncle, read by both scripts
C28_Witness ==
    /\ pc \in PastV1
    /\ vs_pc = "annotations"
    /\ <<3, 1, 0>> \in DOMAIN acc.color_map
    /\ <<0, 0, 1>> \in DOMAIN acc.color_map
    /\ \E i \in 1..Height(mask), j \in 1..Width(mask) :
          mask[i][j] = <<3, 1, 0>> /\ instance_map[i][j] = 1

(***************************************************************************)
(* The pixels visualize_sample measures for one annotation.                *)
(***************************************************************************)
\* the pixels of the object of category cat and id k, as 0-based (row, col)
OwnPixels(cat, k) ==
    {q \in (0..(Height(mask) - 1)) \X (0..(Width(mask) - 1)) :
        LET c == mask[q[1] + 1][q[2] + 1] IN
        IF cat = PeduncleCategory THEN c[1] = 3 /\ c[2] = k
        ELSE c[1] \in {0, 1, 2} /\ c[3] = k}

\* C29: the pixel count and the mask bounding box of an annotation cover
\* only the pixels of its own object: the strawberry pixels with id k for a
\* strawberry annotation, the peduncle pixels with id k for a peduncle
\* annotation, never both.
C29_OwnObjectOnly ==
    \A k \in 1..Len(vs_out) :
       LET row == vs_out[k]
           own == OwnPixels(row.cat_id, row.inst_id)
       IN /\ row.pixel_count = Cardinality(own)
          /\ row.in_mask =>
               /\ own # {}
               /\ row.y0 = SetMin({q[1] : q \in own})
               /\ row.y1 = SetMax({q[1] : q \in own})
               /\ row.x0 = SetMin({q[2] : q \in own})
               /\ row.x1 = SetMax({q[2] : q \in own})

(***************************************************************************)
(* Properties of load_depth_png.                                           *)
(***************************************************************************)
\* the channels a depth in millimetres is stored as: R = depth_mm >> 8 and
\* G = depth_mm & 0xFF
EncodeDepth(depth_mm) == <<depth_mm \div 256, depth_mm % 256>>

\* C30: for every depth_mm of 0..65535 stored as R = depth_mm >> 8 and
\* G = depth_mm & 0xFF, load_depth_png reconstructs depth_mm with no
\* wrap-around, and the three copies of the function reconstruct the same
\* integer for every (R, G) of 0..255 x 0..255.
C30_DepthRoundTrip ==
    (dp_pc = "done" /\ Len(depth_px) = 2) =>
        /\ \A k \in 1..3 :
              /\ depth_out[k] \in 0..65535
              /\ EncodeDepth(depth_out[k]) = depth_px
        /\ depth_out[1] = depth_out[2]
        /\ depth_out[2] = depth_out[3]

\* the largest depth, 65535 mm, decoded
C30_Witness ==
    /\ dp_pc = "done"
    /\ depth_px = <<255, 255>>
    /\ depth_out = <<65535, 65535, 65535>>

====
